---- MODULE Spec2Model ----
(***************************************************************************)
(* A model of the EtherNet/IP - CIP client of src/eip: the segmented read  *)
(* and write loops of NSeriesEIP (n_series.py), the structure member walk  *)
(* of get_data_instance, and the session handling of EIP (eip.py).         *)
(* Byte strings are sequences of 0..255; Python slices are Slice.          *)
(***************************************************************************)
EXTENDS Integers, Sequences, FiniteSets, TLC

VARIABLES
    \* ---- segmented read (_multi_message_variable_read)
    rd_pc,        \* "idle" | "loop" | "done"
    rd_kind,      \* the descriptor's class
    rd_size,      \* cip_datatype_object.size
    rd_offset,    \* offset
    rd_data,      \* data, the accumulation buffer
    rd_reqs,      \* the request paths sent so far, oldest first
    rd_status,    \* general_status of each reply received, oldest first
    rd_result,    \* "none" | "value" once the call has returned
    \* ---- segmented write (_multi_message_variable_write)
    wr_pc,        \* "idle" | "loop" | "done"
    wr_kind,      \* the descriptor's class
    wr_size,      \* cip_datatype_object.size
    wr_data,      \* cip_datatype_object.data, set by from_value
    wr_offset,    \* offset
    wr_reqs,      \* the write requests sent so far: [path, data_type, data]
    wr_status,    \* general_status of each reply received, oldest first
    wr_result,    \* "none" | "returned" | "UnboundLocalError"
    \* ---- structure resolution (get_data_instance on a CIPStructure)
    vto,          \* the controller's Variable Type Objects, by instance id
    rs_pc,        \* "idle" | "walk" | "array" | "done"
    rs_class,     \* the class of the object get_data_instance was called with
    rs_type_name, \* cip_datatype_instance.variable_type_name
    rs_size,      \* cip_datatype_instance.size
    rs_member_id, \* member_instance_id
    rs_members,   \* cip_datatype_instance.members: a dict, in insertion order
    rs_fetches,   \* the first MaxFetches instance ids asked of class 0x6c
    rs_seen,      \* the (member_instance_id, members) the loop has started from
    rs_result,    \* "none" | "returned" | "None" | "AttributeError"
    \* ---- the connection and its session (class EIP)
    sock,                  \* explicit_message_socket: "fresh" | "connected" | "broken" | "closed"
    is_connected_explicit,
    has_session_handle,
    session_handle_id,
    cn_pc,        \* "idle", or "sent": send_command has sent and waits in recv
    cn_op,        \* the operation that called the send_command in progress
    cn_ops,       \* the number of operations called so far
    last_sent,    \* the latest message the socket has sent: [bytes, reg]
    last_rcvd,    \* what the latest recv has returned
    outstanding,  \* requests sent on the live connection and not yet answered
    cn_inv,       \* the latest send_command invocation: what it sent and got
    cn_reg,       \* the latest register_session: the reply it got, if any
    cn_closed_sent, \* messages sent since the latest close_explicit, -1 before one
    cn_last,      \* the operation that completed last
    \* ---- the variable registry (update_variable_dictionary, read_variable,
    \* ---- write_variable)
    ctl_variables,     \* the controller's Variable Objects, by instance id
    variables,         \* self.variables: a dict, in insertion order
    system_variables,  \* self.system_variables
    user_variables,    \* self.user_variables
    rg_pc,             \* "idle" | "list" | "update" | "raised" | "looked"
    rg_list,           \* variable_list of the latest pass that got its list
    rg_instance_id,    \* instance_id of the pass in progress
    rg_passes,         \* discovery passes completed
    rg_fetched,        \* variables listed by the passes so far
    rg_lookup,         \* the read_variable / write_variable call made, if any
    rg_reqs,           \* the get_attribute_all requests of the latest pass
    \* ---- the message codecs (EIPMessage, CommonPacketFormat, CIPReply,
    \* ---- CIPRequest paths)
    cd_pc,        \* "in" | "built" | "changed" | "encoded" | "stale" | "buffer" | "decoded"
    cd_fn,        \* the class exercised
    cd_in,        \* the constructor arguments
    cd_obj,       \* the object built by the constructor
    cd_buf,       \* the bytes encoded, or the buffer received
    cd_dec        \* the object decoded from cd_buf

vars_rd == <<rd_pc, rd_kind, rd_size, rd_offset, rd_data, rd_reqs, rd_status, rd_result>>

vars_wr == <<wr_pc, wr_kind, wr_size, wr_data, wr_offset, wr_reqs, wr_status, wr_result>>

vars_rs == <<vto, rs_pc, rs_class, rs_type_name, rs_size, rs_member_id, rs_members, rs_fetches,
            rs_seen, rs_result>>

vars_cn == <<sock, is_connected_explicit, has_session_handle, session_handle_id, cn_pc,
            cn_op, cn_ops, last_sent, last_rcvd, outstanding, cn_inv, cn_reg,
            cn_closed_sent, cn_last>>

vars_rg == <<ctl_variables, variables, system_variables, user_variables, rg_pc, rg_list,
            rg_instance_id, rg_passes, rg_fetched, rg_lookup, rg_reqs>>

vars_cd == <<cd_pc, cd_fn, cd_in, cd_obj, cd_buf, cd_dec>>

vars == <<vars_rd, vars_wr, vars_rs, vars_cn, vars_rg, vars_cd>>

\* ------------------------------------------------------------------ bounds

\* Largest declared size (bytes) of a variable read or written.
MaxSize == 1000

\* Number of Variable Type Object instances the controller holds (ids 1..n).
NumTypeObjects == 4

\* Number of operations called on one EIP object in a run.
MaxOps == 5

\* The log of fetches keeps at most this many entries; the walk itself is
\* not bounded.
MaxFetches == NumTypeObjects + 3

\* ------------------------------------------------------------ byte strings

Byte == 0..255

\* No arguments, no object.
Nothing == [kind |-> "none"]

\* An exception that left a constructor, a decoder or a property.
Raised(exception) == [error |-> exception]

Min(a, b) == IF a < b THEN a ELSE b

Max(a, b) == IF a > b THEN a ELSE b

RECURSIVE Pow256(_)
Pow256(n) == IF n = 0 THEN 1 ELSE 256 * Pow256(n - 1)

\* Python's s[a:b] for 0 <= a, 0 <= b.
Slice(s, a, b) == SubSeq(s, a + 1, Min(b, Len(s)))

\* Python's s[a:].
SliceFrom(s, a) == SubSeq(s, a + 1, Len(s))

\* n.to_bytes(w, 'little'), struct.pack("<H"/"<L", n).
ToBytesLE(n, w) == [i \in 1..w |-> (n \div Pow256(i - 1)) % 256]

RECURSIVE IntFromBytesLE(_)
\* int.from_bytes(s, 'little'), struct.unpack("<..", s)[0].
IntFromBytesLE(s) ==
    IF s = <<>> THEN 0 ELSE s[1] + 256 * IntFromBytesLE(SubSeq(s, 2, Len(s)))

\* ---------------------------------------------------------------- eip.py

\* CIPDataTypes: the data type codes.
CIP_STRING == 208
CIP_ABBREVIATED_STRUCT == 160
CIP_STRUCT == 162
CIP_ARRAY == 163
CIP_INT == 195

READ_TAG_SERVICE == 76
WRITE_TAG_SERVICE == 77

\* The utf-8 bytes of one code point (no surrogates).
utf8_character(c) ==
    IF c < 128 THEN <<c>>
    ELSE IF c < 2048 THEN <<192 + (c \div 64), 128 + (c % 64)>>
    ELSE IF c < 65536
         THEN <<224 + (c \div 4096), 128 + ((c \div 64) % 64), 128 + (c % 64)>>
         ELSE <<240 + (c \div 262144), 128 + ((c \div 4096) % 64),
                128 + ((c \div 64) % 64), 128 + (c % 64)>>

RECURSIVE encode_utf8(_)
\* str.encode('utf-8') of a string given as its code points: the bytes of
\* its characters in order (the string is split in halves to encode it).
encode_utf8(s) ==
    IF Len(s) = 0 THEN <<>>
    ELSE IF Len(s) = 1 THEN utf8_character(s[1])
    ELSE LET half == Len(s) \div 2
         IN  encode_utf8(SubSeq(s, 1, half)) \o encode_utf8(SubSeq(s, half + 1, Len(s)))

\* CIPRequest.tag_request_path: marker, length byte, name, pad to even.
\* len(tag_name).to_bytes(1, 'little') raises OverflowError above 255.
tag_request_path(tag_name) ==
    IF Len(tag_name) > 255 THEN [error |-> "OverflowError"]
    ELSE LET request_path_bytes ==
                 <<145>> \o ToBytesLE(Len(tag_name), 1) \o encode_utf8(tag_name)
         IN  IF Len(request_path_bytes) % 2 # 0
             THEN request_path_bytes \o <<0>>
             ELSE request_path_bytes

\* CIPRequest.__init__: the path size is counted in words.
CIPRequest(request_service, request_path, request_data) ==
    [request_service   |-> request_service,
     request_data      |-> request_data,
     request_path_size |-> Len(request_path) \div 2,
     request_path      |-> request_path]

\* CIPRequest.bytes(); request_path_size.to_bytes(1, 'little') raises
\* OverflowError above 255.
CIPRequest_bytes(self) ==
    IF self.request_path_size > 255 THEN [error |-> "OverflowError"]
    ELSE self.request_service \o ToBytesLE(self.request_path_size, 1)
         \o self.request_path \o self.request_data

\* CIPReply.__init__: the fields sliced out of the reply bytes.
CIPReply(reply_bytes) ==
    LET extended_status_size == Slice(reply_bytes, 3, 4)
        extended_status_byte_offset == IntFromBytesLE(extended_status_size) * 2
    IN  [reply_service        |-> Slice(reply_bytes, 0, 1),
         reserved             |-> Slice(reply_bytes, 1, 2),
         general_status       |-> Slice(reply_bytes, 2, 3),
         extended_status_size |-> extended_status_size,
         extended_status      |-> Slice(reply_bytes, 4, extended_status_byte_offset),
         reply_data           |-> SliceFrom(reply_bytes, 4 + extended_status_byte_offset)]

\* ------------------------------------------------------------ n_series.py

MAXIMUM_LENGTH == 502

\* SimpleDataSegmentRequest.bytes().
SimpleDataSegmentRequest(offset, size) ==
    <<128, 3>> \o ToBytesLE(offset, 4) \o ToBytesLE(size, 2)

\* The classes read_variable and write_variable hand to the segmented engine.
SegmentedKinds == {"CIPString", "CIPArray", "CIPStructure", "CIPAbbreviatedStructure"}

\* data_type_code() of each descriptor class.
data_type_code(kind) ==
    CASE kind = "CIPString" -> CIP_STRING
      [] kind = "CIPArray" -> CIP_ARRAY
      [] kind = "CIPStructure" -> CIP_STRUCT
      [] kind = "CIPAbbreviatedStructure" -> CIP_ABBREVIATED_STRUCT
      [] OTHER -> CIP_INT

\* cip_datatype_object.variable_name of the variable read and written.
variable_name == <<86, 49, 48>>

\* variable_request_path_segment: the symbolic path of a variable name.
variable_request_path_segment(name) == tag_request_path(name)

\* ------------------------------------------------------------- controller

\* The byte at position p of the serialized value the controller holds.
MemByte(p) == (7 * p + 3) % 256

\* general_status values a reply may carry: success, and one CIP error.
StatusValues == {0, 5}

\* The controller's reply to a read of [offset, offset+size): on success the
\* type code (2 bytes), for a string the length prefix (2 bytes), then the
\* size bytes asked for; on an error only the status and one extended
\* status word.
ControllerReadReply(kind, offset, size, status) ==
    IF status = 0
    THEN <<READ_TAG_SERVICE + 128, 0, 0, 0>>
         \o <<data_type_code(kind), 0>>
         \o (IF kind = "CIPString" THEN ToBytesLE(size, 2) ELSE <<>>)
         \o [i \in 1..size |-> MemByte(offset + i - 1)]
    ELSE <<READ_TAG_SERVICE + 128, 0, status, 1, 255, 0>>

\* ---------------------------------------------------------- segmented read

max_read_size == MAXIMUM_LENGTH - 8

\* Mutant: the string's length prefix is not skipped.
burn_characters_none(kind) == 0

burn_characters(kind) == IF kind = "CIPString" THEN 2 ELSE 0

\* Mutant: the last chunk asks for a full chunk, not for the remainder.
read_size_no_remainder(size, offset) == max_read_size

\* The size asked for in one iteration of the read loop.
read_size(size, offset) ==
    IF size - offset > max_read_size THEN max_read_size ELSE size - offset

\* _simple_data_segment_read: the request path of one chunk.
simple_data_segment_read_path(name, offset, size) ==
    variable_request_path_segment(name) \o SimpleDataSegmentRequest(offset, size)

\* What one iteration appends to data.
read_appended(kind, response) == SliceFrom(response.reply_data, 2 + burn_characters(kind))

\* The offset of the next iteration.
read_next_offset(offset) == offset + max_read_size

\* Mutant: the loop runs once more when offset reaches the size.
read_loop_condition_inclusive(offset, size) == offset <= size

\* The loop condition of the read loop.
read_loop_condition(offset, size) == offset < size

InitRead ==
    /\ rd_pc = "idle"
    /\ rd_kind \in SegmentedKinds
    /\ rd_size \in 0..MaxSize
    /\ rd_offset = 0
    /\ rd_data = <<>>
    /\ rd_reqs = <<>>
    /\ rd_status = <<>>
    /\ rd_result = "none"

\* _multi_message_variable_read is entered: offset=0, data=b''.
ReadCall ==
    /\ rd_pc = "idle"
    /\ rd_pc' = "loop"
    /\ rd_offset' = 0
    /\ rd_data' = <<>>
    /\ UNCHANGED <<rd_kind, rd_size, rd_reqs, rd_status, rd_result, vars_wr, vars_rs, vars_cn, vars_rg, vars_cd>>

\* One iteration of the while loop: one read request and its reply.
ReadChunk ==
    /\ rd_pc = "loop"
    /\ read_loop_condition(rd_offset, rd_size)
    /\ \E status \in StatusValues :
        LET size == read_size(rd_size, rd_offset)
            response == CIPReply(ControllerReadReply(rd_kind, rd_offset, size, status))
        IN  /\ rd_reqs' = Append(rd_reqs, simple_data_segment_read_path(variable_name, rd_offset, size))
            /\ rd_status' = Append(rd_status, IntFromBytesLE(response.general_status))
            /\ rd_data' = rd_data \o read_appended(rd_kind, response)
            /\ rd_offset' = read_next_offset(rd_offset)
    /\ UNCHANGED <<rd_pc, rd_kind, rd_size, rd_result, vars_wr, vars_rs, vars_cn, vars_rg, vars_cd>>

\* The loop condition fails: data is stored and value() is returned.
ReadReturn ==
    /\ rd_pc = "loop"
    /\ ~read_loop_condition(rd_offset, rd_size)
    /\ rd_pc' = "done"
    /\ rd_result' = "value"
    /\ UNCHANGED <<rd_kind, rd_size, rd_offset, rd_data, rd_reqs, rd_status, vars_wr, vars_rs, vars_cn, vars_rg, vars_cd>>

\* No read is in progress or possible.
ParkRead ==
    /\ rd_pc = "off"
    /\ rd_kind = "CIPString"
    /\ rd_size = 0
    /\ rd_offset = 0
    /\ rd_data = <<>>
    /\ rd_reqs = <<>>
    /\ rd_status = <<>>
    /\ rd_result = "none"

NextRead == ReadCall \/ ReadChunk \/ ReadReturn

\* --------------------------------------------------------- segmented write

\* Mutant: the chunk size the source's comment speaks of.
max_write_size_480 == 480

max_write_size == 400

\* from_value: the bytes of a value of n bytes.
from_value(n) == [i \in 1..n |-> MemByte(i - 1)]

\* The value "HELLO".
HELLO == <<72, 69, 76, 76, 79>>

\* The serialized values written into a variable of a class and size: the
\* controller's bytes in the declared size, for a string also in shorter
\* lengths and, when it has room for it, "HELLO".
WrittenValues(kind, size) ==
    {from_value(n) : n \in IF kind = "CIPString" THEN {size, size \div 2, Min(size, 5)}
                           ELSE {size}}
        \cup (IF kind = "CIPString" /\ size >= Len(HELLO) THEN {HELLO} ELSE {})

\* cip_datatype_object.array_data_type of the arrays written.
array_data_type == CIP_INT

\* The loop condition of the write loop.
write_loop_condition(offset, size) == offset < size

\* The size declared in one iteration of the write loop.
write_size(size, offset) ==
    IF size - offset > max_write_size THEN max_write_size ELSE size - offset

\* The slice of the value handed to _simple_data_segment_write.
write_chunk(data, offset, size) == Slice(data, offset, offset + size)

\* The offset of the next iteration.
write_next_offset(offset) == offset + max_write_size

\* Mutant: the length prefix of a string chunk is the size the segment
\* declares, not the length of the chunk's bytes.
simple_data_segment_write_declared_length(kind, name, offset, size, data) ==
    LET request_path ==
            variable_request_path_segment(name) \o SimpleDataSegmentRequest(offset, size)
    IN  IF data_type_code(kind) = CIP_STRING
        THEN [bound |-> TRUE, path |-> request_path, data_type |-> data_type_code(kind),
              data |-> ToBytesLE(size, 2) \o data]
        ELSE IF data_type_code(kind) = CIP_ARRAY
        THEN [bound |-> TRUE, path |-> request_path, data_type |-> array_data_type,
              data |-> data]
        ELSE [bound |-> FALSE, path |-> request_path, data_type |-> 0, data |-> <<>>]

\* _simple_data_segment_write: the arguments of its write_tag_service call;
\* bound is FALSE when neither branch makes the call and assigns response.
simple_data_segment_write(kind, name, offset, size, data) ==
    LET request_path ==
            variable_request_path_segment(name) \o SimpleDataSegmentRequest(offset, size)
    IN  IF data_type_code(kind) = CIP_STRING
        THEN [bound |-> TRUE, path |-> request_path, data_type |-> data_type_code(kind),
              data |-> ToBytesLE(Len(data), 2) \o data]
        ELSE IF data_type_code(kind) = CIP_ARRAY
        THEN [bound |-> TRUE, path |-> request_path, data_type |-> array_data_type,
              data |-> data]
        ELSE [bound |-> FALSE, path |-> request_path, data_type |-> 0, data |-> <<>>]

\* The controller's reply to a write request.
ControllerWriteReply(status) ==
    IF status = 0
    THEN <<WRITE_TAG_SERVICE + 128, 0, 0, 0>>
    ELSE <<WRITE_TAG_SERVICE + 128, 0, status, 1, 255, 0>>

InitWrite ==
    /\ wr_pc = "idle"
    /\ wr_kind \in SegmentedKinds
    /\ wr_size \in 0..MaxSize
    /\ wr_data = <<>>
    /\ wr_offset = 0
    /\ wr_reqs = <<>>
    /\ wr_status = <<>>
    /\ wr_result = "none"

ParkWrite ==
    /\ wr_pc = "off"
    /\ wr_kind = "CIPString"
    /\ wr_size = 0
    /\ wr_data = <<>>
    /\ wr_offset = 0
    /\ wr_reqs = <<>>
    /\ wr_status = <<>>
    /\ wr_result = "none"

\* _multi_message_variable_write is entered with a value: from_value, offset=0.
WriteCall ==
    /\ wr_pc = "idle"
    /\ wr_data' \in WrittenValues(wr_kind, wr_size)
    /\ wr_pc' = "loop"
    /\ wr_offset' = 0
    /\ UNCHANGED <<wr_kind, wr_size, wr_reqs, wr_status, wr_result, vars_rd, vars_rs, vars_cn, vars_rg, vars_cd>>

\* One iteration of the while loop: one write request and its reply.
WriteChunk ==
    /\ wr_pc = "loop"
    /\ write_loop_condition(wr_offset, wr_size)
    /\ LET size == write_size(wr_size, wr_offset)
           call == simple_data_segment_write(wr_kind, variable_name, wr_offset, size,
                                             write_chunk(wr_data, wr_offset, size))
       IN  /\ call.bound
           /\ \E status \in StatusValues :
               LET response == CIPReply(ControllerWriteReply(status))
               IN  /\ wr_reqs' = Append(wr_reqs, call)
                   /\ wr_status' = Append(wr_status, IntFromBytesLE(response.general_status))
           /\ wr_offset' = write_next_offset(wr_offset)
    /\ UNCHANGED <<wr_pc, wr_kind, wr_size, wr_data, wr_result, vars_rd, vars_rs, vars_cn, vars_rg, vars_cd>>

\* An iteration for a class that is neither string nor array: no request is
\* sent and "return response" raises UnboundLocalError out of the call.
WriteChunkUnbound ==
    /\ wr_pc = "loop"
    /\ write_loop_condition(wr_offset, wr_size)
    /\ LET size == write_size(wr_size, wr_offset)
       IN  ~simple_data_segment_write(wr_kind, variable_name, wr_offset, size,
                                      write_chunk(wr_data, wr_offset, size)).bound
    /\ wr_pc' = "done"
    /\ wr_result' = "UnboundLocalError"
    /\ UNCHANGED <<wr_kind, wr_size, wr_data, wr_offset, wr_reqs, wr_status, vars_rd, vars_rs, vars_cn, vars_rg, vars_cd>>

\* The loop condition fails: the call returns.
WriteReturn ==
    /\ wr_pc = "loop"
    /\ ~write_loop_condition(wr_offset, wr_size)
    /\ wr_pc' = "done"
    /\ wr_result' = "returned"
    /\ UNCHANGED <<wr_kind, wr_size, wr_data, wr_offset, wr_reqs, wr_status, vars_rd, vars_rs, vars_cn, vars_rg, vars_cd>>

NextWrite == WriteCall \/ WriteChunk \/ WriteChunkUnbound \/ WriteReturn

\* ----------------------------------------------------- structure resolution

\* Member names the controller uses, of odd and of even length.
MemberNames == {<<65>>, <<66, 66>>, <<67>>}

\* The data type code the controller reports for an instance: instance 1 is
\* the structure itself, the others are members of elementary types and of
\* a code (0x11) the client does not know.
TypeCodeOf(i) ==
    IF i = 1 THEN CIP_STRUCT
    ELSE IF i % 3 = 2 THEN CIP_INT
    ELSE IF i % 3 = 0 THEN 17
    ELSE CIP_STRING

\* The array dimension the controller reports for an instance.
DimensionOf(i) == IF i = 3 THEN 1 ELSE 0

\* The controller's Get Attribute All reply for Variable Type Object i, in the
\* layout VariableTypeObjectReply reads: size, type codes, dimension,
\* extents, member count, crc, name length, name, pad, next instance id,
\* nesting instance id, array starts.
ControllerTypeObjectReply(table, i) ==
    LET o == table[i]
        d == DimensionOf(i)
    IN  <<129, 0, 0, 0>>
        \o ToBytesLE(8 * i, 4) \o <<0, TypeCodeOf(i), 0, d>>
        \o [k \in 1..(4 * d) |-> IF k % 4 = 1 THEN 2 ELSE 0]
        \o ToBytesLE(0, 2) \o <<0, 0, 0, 0>> \o ToBytesLE(4660, 2)
        \o ToBytesLE(Len(o.name), 1) \o o.name
        \o (IF Len(o.name) % 2 = 0 THEN <<0>> ELSE <<>>)
        \o ToBytesLE(o.next, 4) \o ToBytesLE(o.nesting, 4)
        \o [k \in 1..(4 * d) |-> 0]

\* VariableTypeObjectReply: the properties get_data_instance reads.
size_in_memory(reply) == IntFromBytesLE(Slice(reply.reply_data, 0, 4))

vto_cip_data_type(reply) == Slice(reply.reply_data, 5, 6)

vto_array_dimension(reply) == IntFromBytesLE(Slice(reply.reply_data, 7, 8))

variable_type_name_length(reply) ==
    IntFromBytesLE(Slice(reply.reply_data, 16 + vto_array_dimension(reply) * 4,
                                           17 + vto_array_dimension(reply) * 4))

vto_padding(reply) == IF variable_type_name_length(reply) % 2 = 0 THEN 1 ELSE 0

variable_type_name(reply) ==
    Slice(reply.reply_data, 17 + vto_array_dimension(reply) * 4,
          17 + vto_array_dimension(reply) * 4 + variable_type_name_length(reply))

next_instance_id(reply) ==
    LET at == vto_padding(reply) + 17 + vto_array_dimension(reply) * 4
              + variable_type_name_length(reply)
    IN  Slice(reply.reply_data, at, at + 4)

nesting_variable_type_instance_id(reply) ==
    LET at == vto_padding(reply) + 21 + vto_array_dimension(reply) * 4
              + variable_type_name_length(reply)
    IN  Slice(reply.reply_data, at, at + 4)

\* _get_variable_type_object: the decoded reply for an instance id.
get_variable_type_object(table, instance_id) ==
    CIPReply(ControllerTypeObjectReply(table, instance_id))

\* data_type_dictionary.get: the class of a type code, or None.
data_type_dictionary_get(code) ==
    IF code = <<CIP_INT>> THEN "CIPInteger"
    ELSE IF code = <<CIP_STRING>> THEN "CIPString"
    ELSE IF code = <<CIP_STRUCT>> THEN "CIPStructure"
    ELSE IF code = <<CIP_ARRAY>> THEN "CIPArray"
    ELSE IF code = <<CIP_ABBREVIATED_STRUCT>> THEN "CIPAbbreviatedStructure"
    ELSE "None"

\* get_data_instance of a class object or of None: no isinstance branch
\* applies and the argument is returned.
get_data_instance_of_class(class) == class

\* members.update({name: value}) of a dict kept in insertion order: a name
\* already present keeps its place and takes the new value.
members_update(members, name, value) ==
    IF \E k \in 1..Len(members) : members[k].name = name
    THEN [k \in 1..Len(members) |->
             IF members[k].name = name THEN [name |-> name, value |-> value]
             ELSE members[k]]
    ELSE Append(members, [name |-> name, value |-> value])

\* The loop condition of the member walk.
member_loop_condition(member_instance_id) == member_instance_id # 0

\* The instance ids a member link may hold: the terminator or a member.
MemberLinks == {0} \cup 2..NumTypeObjects

\* The name of the structure's own type object.
StructName == <<83, 49>>

\* The tables the controller may hold: instance 1 is the structure, linked
\* to its first member; the others are members, each linked to the next.
TypeObjectTables ==
    {[i \in 1..NumTypeObjects |->
         IF i = 1 THEN [name |-> StructName, next |-> 0, nesting |-> first]
         ELSE [name |-> members[i].name, next |-> members[i].next, nesting |-> 0]] :
       first \in MemberLinks,
       members \in [2..NumTypeObjects -> [name : MemberNames, next : MemberLinks]]}

InitResolve ==
    /\ vto \in TypeObjectTables
    /\ rs_pc = "idle"
    /\ rs_class = "none"
    /\ rs_type_name = <<>>
    /\ rs_size = 0
    /\ rs_member_id = 0
    /\ rs_members = <<>>
    /\ rs_fetches = <<>>
    /\ rs_seen = {}
    /\ rs_result = "none"

\* No structure resolution is in progress or possible.
ParkResolve ==
    /\ vto = <<>>
    /\ rs_pc = "off"
    /\ rs_class = "none"
    /\ rs_type_name = <<>>
    /\ rs_size = 0
    /\ rs_member_id = 0
    /\ rs_members = <<>>
    /\ rs_fetches = <<>>
    /\ rs_seen = {}
    /\ rs_result = "none"

\* get_data_instance of a CIPArray object with instance_id, up to its
\* second request: the type object of instance_id is fetched and gives
\* variable_type_name and, as its next_instance_id, the instance that is
\* fetched next.
get_data_instance_of_array(table, instance_id) ==
    LET variable_type_object_reply == get_variable_type_object(table, instance_id)
    IN  [variable_type_name |-> variable_type_name(variable_type_object_reply),
         next_instance_id |->
             IntFromBytesLE(next_instance_id(variable_type_object_reply))]

\* get_data_instance of a CIPAbbreviatedStructure object: the branch is
\* `pass`, nothing is fetched and the function ends without a return.
get_data_instance_of_abbreviated_structure ==
    [fetches |-> <<>>, outcome |-> "None"]

\* get_data_instance is entered with the structure descriptor of instance 1:
\* its own type object gives name, size and the first member's instance id.
ResolveCall ==
    /\ rs_pc = "idle"
    /\ rs_class' = "CIPStructure"
    /\ LET variable_type_object_reply == get_variable_type_object(vto, 1)
       IN  /\ rs_type_name' = variable_type_name(variable_type_object_reply)
           /\ rs_size' = size_in_memory(variable_type_object_reply)
           /\ rs_member_id' =
                  IntFromBytesLE(nesting_variable_type_instance_id(variable_type_object_reply))
    /\ rs_fetches' = Append(rs_fetches, 1)
    /\ rs_pc' = "walk"
    /\ UNCHANGED <<vto, rs_members, rs_seen, rs_result, vars_rd, vars_wr, vars_cn, vars_rg, vars_cd>>

\* One iteration of the member loop: fetch the member's type object, file
\* its class under its name, go on to the next instance id.
ResolveMember ==
    /\ rs_pc = "walk"
    /\ member_loop_condition(rs_member_id)
    /\ LET variable_type_object_reply == get_variable_type_object(vto, rs_member_id)
           member_cip_datatype_object ==
               data_type_dictionary_get(vto_cip_data_type(variable_type_object_reply))
           member_cip_datatype_instance ==
               get_data_instance_of_class(member_cip_datatype_object)
       IN  /\ rs_members' = members_update(rs_members,
                                variable_type_name(variable_type_object_reply),
                                get_data_instance_of_class(member_cip_datatype_instance))
           /\ rs_member_id' = IntFromBytesLE(next_instance_id(variable_type_object_reply))
    /\ rs_fetches' = IF Len(rs_fetches) < MaxFetches
                      THEN Append(rs_fetches, rs_member_id)
                      ELSE rs_fetches
    /\ rs_seen' = rs_seen \cup {<<rs_member_id, rs_members>>}
    /\ UNCHANGED <<vto, rs_pc, rs_class, rs_type_name, rs_size, rs_result,
                   vars_rd, vars_wr, vars_cn, vars_rg, vars_cd>>

\* The loop condition fails: the descriptor is returned.
ResolveReturn ==
    /\ rs_pc = "walk"
    /\ ~member_loop_condition(rs_member_id)
    /\ rs_pc' = "done"
    /\ rs_result' = "returned"
    /\ UNCHANGED <<vto, rs_class, rs_type_name, rs_size, rs_member_id, rs_members,
                   rs_fetches, rs_seen, vars_rd, vars_wr, vars_cn, vars_rg, vars_cd>>

\* get_data_instance is entered with an array descriptor of some instance,
\* up to the reply to its first request: the type object of the instance
\* gives variable_type_name.
ResolveArray ==
    /\ rs_pc = "idle"
    /\ rs_class' = "CIPArray"
    /\ \E instance_id \in 1..NumTypeObjects :
          /\ rs_type_name' = get_data_instance_of_array(vto, instance_id).variable_type_name
          /\ rs_fetches' = Append(rs_fetches, instance_id)
    /\ rs_pc' = "array"
    /\ UNCHANGED <<vto, rs_size, rs_member_id, rs_members, rs_seen, rs_result,
                   vars_rd, vars_wr, vars_cn, vars_rg, vars_cd>>

\* The second request of the array branch, for the next_instance_id of the
\* instance fetched first, is answered; the arguments for the class of the
\* element are then read from the reply, of which the second, size, is no
\* attribute of VariableTypeObjectReply, and AttributeError leaves the
\* function.
ResolveArrayElement ==
    /\ rs_pc = "array"
    /\ rs_fetches' =
           Append(rs_fetches,
                  get_data_instance_of_array(vto, rs_fetches[Len(rs_fetches)]).next_instance_id)
    /\ rs_result' = "AttributeError"
    /\ rs_pc' = "done"
    /\ UNCHANGED <<vto, rs_class, rs_type_name, rs_size, rs_member_id, rs_members, rs_seen,
                   vars_rd, vars_wr, vars_cn, vars_rg, vars_cd>>

\* get_data_instance is entered with an abbreviated structure descriptor:
\* nothing is fetched and None is returned.
ResolveAbbreviatedStructure ==
    /\ rs_pc = "idle"
    /\ rs_class' = "CIPAbbreviatedStructure"
    /\ rs_fetches' = rs_fetches \o get_data_instance_of_abbreviated_structure.fetches
    /\ rs_result' = get_data_instance_of_abbreviated_structure.outcome
    /\ rs_pc' = "done"
    /\ UNCHANGED <<vto, rs_type_name, rs_size, rs_member_id, rs_members, rs_seen,
                   vars_rd, vars_wr, vars_cn, vars_rg, vars_cd>>

\* get_data_instance is entered with an object of an elementary class: no
\* isinstance branch applies and the argument is returned.
ResolveElementary ==
    /\ rs_pc = "idle"
    /\ \E class \in {"CIPInteger", "CIPString"} :
          rs_class' = get_data_instance_of_class(class)
    /\ rs_result' = "returned"
    /\ rs_pc' = "done"
    /\ UNCHANGED <<vto, rs_type_name, rs_size, rs_member_id, rs_members, rs_fetches,
                   rs_seen, vars_rd, vars_wr, vars_cn, vars_rg, vars_cd>>

NextResolve ==
    \/ ResolveCall
    \/ ResolveMember
    \/ ResolveReturn
    \/ ResolveArray
    \/ ResolveArrayElement
    \/ ResolveAbbreviatedStructure
    \/ ResolveElementary

\* ------------------------------------------------------------- connection

\* EIPMessage.__init__: the fields, length derived from command_data.
EIPMessage_init(command, command_data, handle, status, context, options) ==
    [command             |-> command,
     length              |-> ToBytesLE(Len(command_data), 2),
     session_handle_id   |-> handle,
     status              |-> status,
     sender_context_data |-> context,
     command_options     |-> options,
     command_data        |-> command_data]

\* EIPMessage(command, command_data, session_handle_id), the other
\* arguments at their defaults.
EIPMessage(command, command_data, handle) ==
    EIPMessage_init(command, command_data, handle, <<0, 0, 0, 0>>,
                    <<0, 0, 0, 0, 0, 0, 0, 0>>, <<0, 0, 0, 0>>)

\* EIPMessage(): the message send_command returns when it receives nothing.
EIPMessage_default == EIPMessage(<<0, 0>>, <<>>, <<0, 0, 0, 0>>)

\* EIPMessage.bytes().
EIPMessage_bytes(m) ==
    m.command \o m.length \o m.session_handle_id \o m.status \o m.sender_context_data
    \o m.command_options \o m.command_data

\* Mutant: the sender context is taken to be 4 bytes long.
EIPMessage_from_bytes_short_context(b) ==
    [command             |-> Slice(b, 0, 2),
     length              |-> Slice(b, 2, 4),
     session_handle_id   |-> Slice(b, 4, 8),
     status              |-> Slice(b, 8, 12),
     sender_context_data |-> Slice(b, 12, 16),
     command_options     |-> Slice(b, 16, 20),
     command_data        |-> SliceFrom(b, 20)]

\* EIPMessage.from_bytes: the fields sliced out of a received buffer.
EIPMessage_from_bytes(b) ==
    [command             |-> Slice(b, 0, 2),
     length              |-> Slice(b, 2, 4),
     session_handle_id   |-> Slice(b, 4, 8),
     status              |-> Slice(b, 8, 12),
     sender_context_data |-> Slice(b, 12, 20),
     command_options     |-> Slice(b, 20, 24),
     command_data        |-> SliceFrom(b, 24)]

\* CommandSpecificData.bytes().
CommandSpecificData_bytes(interface_handle, timeout, encapsulated_packet) ==
    interface_handle \o timeout \o encapsulated_packet

\* --------------------------------------------------------------- registry

\* Total number of variables the discovery passes of one run list.
MaxVariables == 3

\* Number of discovery passes in one run.
MaxPasses == 2

\* The names the controller's variables may have: "_S", "V", "V_" and "".
VariableNames == {<<95, 83>>, <<86>>, <<86, 95>>, <<>>}

\* The names looked up: the names above and "X", which no variable has.
LookupNames == VariableNames \cup {<<88>>}

\* The controller's variables, a name and a Variable Object: under every
\* name a variable of each of three type codes, two the client knows and
\* one (0x11) it does not, with array dimension 0, and
\* under the name "V" an array INT[2] of dimension 1 whose reply is whole or
\* ends before the extents.
ControllerVariables ==
    {[name |-> n, code |-> c, array_dimension |-> 0, whole |-> TRUE] :
         n \in VariableNames, c \in {CIP_INT, CIP_STRING, 17}}
        \cup {[name |-> <<86>>, code |-> CIP_ARRAY, array_dimension |-> 1, whole |-> w] :
                  w \in BOOLEAN}

\* The controller's variable tables of at most n variables.
VariableTables(n) ==
    UNION {[1..k -> ControllerVariables] : k \in 0..n}

\* Tag Name Server (class 0x6a), instance 0: the number of variables is at
\* reply_data[2:4].
ControllerTagCountReply(table) ==
    <<129, 0, 0, 0>> \o <<1, 0>> \o ToBytesLE(Len(table), 2)

\* Tag Name Server, instance i: the name length is at reply_data[4], the
\* name follows it.
ControllerTagNameReply(table, i) ==
    <<129, 0, 0, 0>> \o ToBytesLE(i, 4) \o ToBytesLE(Len(table[i].name), 1)
        \o table[i].name

\* Variable Object (class 0x6b), instance i, in the layout
\* VariableObjectReply reads: size, type code, array type code, dimension
\* and a byte of padding; for an array the extent of each dimension from
\* offset 8 on, and after 16 more bytes (bit number, variable type instance
\* id) the start of the array elements at offset 24 + 4 * dimension.
ControllerVariableObjectReply(table, i) ==
    IF table[i].array_dimension = 0
    THEN <<129, 0, 0, 0>>
             \o ToBytesLE(IF table[i].code = CIP_STRING THEN 16 ELSE 2, 4)
             \o <<table[i].code, 0, 0, 0>>
    ELSE <<129, 0, 0, 0>>
             \o ToBytesLE(4, 4)
             \o <<table[i].code, CIP_INT, table[i].array_dimension, 0>>
             \o (IF table[i].whole
                 THEN ToBytesLE(2, 4) \o [k \in 1..16 |-> 0] \o ToBytesLE(0, 4)
                 ELSE <<>>)

\* str(b, 'utf-8') of the one- and two-byte sequences: the code points.
RECURSIVE str_utf8(_)
str_utf8(b) ==
    IF b = <<>> THEN <<>>
    ELSE IF b[1] >= 192 /\ Len(b) >= 2
    THEN <<(b[1] - 192) * 64 + (b[2] - 128)>> \o str_utf8(SubSeq(b, 3, Len(b)))
    ELSE <<b[1]>> \o str_utf8(SubSeq(b, 2, Len(b)))

\* The class and instance a get_attribute_all request addresses.
attribute_all_request(class_id, instance_id) ==
    [class_id |-> class_id, instance_id |-> ToBytesLE(instance_id, 2)]

\* _get_number_of_variables.
get_number_of_variables(table) ==
    IntFromBytesLE(Slice(CIPReply(ControllerTagCountReply(table)).reply_data, 2, 4))

\* _get_variable_list: one name per tag index.
get_variable_list(table) ==
    [offset \in 1..get_number_of_variables(table) |->
        LET reply == CIPReply(ControllerTagNameReply(table, offset))
        IN  str_utf8(Slice(reply.reply_data, 5,
                           5 + IntFromBytesLE(Slice(reply.reply_data, 4, 5))))]

\* VariableObjectReply: the properties update_variable_dictionary reads.
vo_size(reply) == IntFromBytesLE(Slice(reply.reply_data, 0, 4))

vo_cip_data_type(reply) == Slice(reply.reply_data, 4, 5)

vo_cip_data_type_of_array(reply) == Slice(reply.reply_data, 5, 6)

vo_array_dimension(reply) == IntFromBytesLE(Slice(reply.reply_data, 6, 7))

\* number_of_elements: the bytes struct.unpack("<L", ..) is given for
\* dimension i of range(array_dimension), and the list of the values.
vo_dimension_size_bytes(reply, i) == Slice(reply.reply_data, 8 + i * 4, 8 + i * 4 + 4)

vo_number_of_elements(reply) ==
    [k \in 1..vo_array_dimension(reply) |->
        IntFromBytesLE(vo_dimension_size_bytes(reply, k - 1))]

\* start_array_elements: the same slice is unpacked for every dimension.
vo_array_start_bytes(reply) ==
    Slice(reply.reply_data, 24 + vo_array_dimension(reply) * 4,
          24 + vo_array_dimension(reply) * 4 + 4)

vo_start_array_elements(reply) ==
    [k \in 1..vo_array_dimension(reply) |-> IntFromBytesLE(vo_array_start_bytes(reply))]

\* struct.unpack raises struct.error when the slice it is given has not the
\* size of its format: whether a property update_variable_dictionary reads
\* of a reply with a known type code raises it.
vo_struct_error(reply) ==
    \/ Len(Slice(reply.reply_data, 6, 7)) # 1
    \/ Len(Slice(reply.reply_data, 0, 4)) # 4
    \/ /\ vo_array_dimension(reply) # 0
       /\ \/ \E i \in 0..(vo_array_dimension(reply) - 1) :
                 Len(vo_dimension_size_bytes(reply, i)) # 4
          \/ Len(vo_array_start_bytes(reply)) # 4

\* None, as a descriptor.
NoneObject == [class |-> "None", size |-> 0, instance_id |-> 0, variable_name |-> <<>>]

\* dict.update({key: value}) and dict.get(key) of a dict kept as the
\* sequence of its items in insertion order.
dict_update(d, key, value) == members_update(d, key, value)

dict_get(d, key) ==
    IF \E k \in 1..Len(d) : d[k].name = key
    THEN d[CHOOSE k \in 1..Len(d) : d[k].name = key].value
    ELSE NoneObject

dict_keys(d) == {d[k].name : k \in 1..Len(d)}

\* Mutant: the marker is looked for in the second character.
is_system_variable_second_character(variable) == Slice(variable, 1, 2) = <<95>>

\* variable[0:1] == '_'.
is_system_variable(variable) == Slice(variable, 0, 1) = <<95>>

\* The object a class of the data type dictionary gives when called with
\* the five arguments of an array, with instance_id and variable_name set.
array_instance(class, data_type_of_array, size, array_dimension, number_of_elements, start_array_elements, instance_id, variable) ==
    [class |-> class, size |-> size, instance_id |-> instance_id,
     variable_name |-> variable, array_data_type |-> data_type_of_array,
     array_dimension |-> array_dimension,
     number_of_elements |-> number_of_elements,
     start_array_elements |-> start_array_elements]

\* Mutant: the descriptor takes the 0-based position as its instance id.
variable_descriptor_zero_based(reply, instance_id, variable) ==
    LET variable_cip_datatype == data_type_dictionary_get(vo_cip_data_type(reply))
    IN  IF variable_cip_datatype = "None" THEN NoneObject
        ELSE IF vo_struct_error(reply) THEN Raised("struct.error")
        ELSE IF vo_array_dimension(reply) # 0
        THEN array_instance(variable_cip_datatype, vo_cip_data_type_of_array(reply),
                            vo_size(reply), vo_array_dimension(reply),
                            vo_number_of_elements(reply), vo_start_array_elements(reply),
                            instance_id - 1, variable)
        ELSE [class |-> variable_cip_datatype, size |-> vo_size(reply),
              instance_id |-> instance_id - 1, variable_name |-> variable]

\* The descriptor update_variable_dictionary instantiates for a variable:
\* None when the type code is not in the data type dictionary; struct.error
\* when a property it reads finds the reply too short; for an array
\* dimension other than 0 the object the class gives for the array type,
\* size, dimension, extents and starts of the reply; otherwise the object
\* the class gives without arguments, with the size of the reply.
variable_descriptor(reply, instance_id, variable) ==
    LET variable_cip_datatype == data_type_dictionary_get(vo_cip_data_type(reply))
    IN  IF variable_cip_datatype = "None" THEN NoneObject
        ELSE IF vo_struct_error(reply) THEN Raised("struct.error")
        ELSE IF vo_array_dimension(reply) # 0
        THEN array_instance(variable_cip_datatype, vo_cip_data_type_of_array(reply),
                            vo_size(reply), vo_array_dimension(reply),
                            vo_number_of_elements(reply), vo_start_array_elements(reply),
                            instance_id, variable)
        ELSE [class |-> variable_cip_datatype, size |-> vo_size(reply),
              instance_id |-> instance_id, variable_name |-> variable]

\* rg_lookup before any read_variable / write_variable.
NoLookup == [op |-> "none", name |-> <<>>, found |-> FALSE, requests |-> 0,
             paths |-> <<>>, outcome |-> "none"]

InitRegistry ==
    /\ ctl_variables = <<>>
    /\ variables = <<>>
    /\ system_variables = <<>>
    /\ user_variables = <<>>
    /\ rg_pc = "idle"
    /\ rg_list = <<>>
    /\ rg_instance_id = 0
    /\ rg_passes = 0
    /\ rg_fetched = 0
    /\ rg_lookup = NoLookup
    /\ rg_reqs = <<>>

\* No registry is in use.
ParkRegistry ==
    /\ ctl_variables = <<>>
    /\ variables = <<>>
    /\ system_variables = <<>>
    /\ user_variables = <<>>
    /\ rg_pc = "off"
    /\ rg_list = <<>>
    /\ rg_instance_id = 0
    /\ rg_passes = 0
    /\ rg_fetched = 0
    /\ rg_lookup = NoLookup
    /\ rg_reqs = <<>>

\* update_variable_dictionary is called on an object that is not in a call
\* (a pass that raised has left it as it was), up to the reply to the first
\* request: the controller holds some table of variables and
\* _get_number_of_variables reads their number from instance 0 of class
\* 0x6a. With no variable _get_variable_list returns the empty list at once
\* and the loop over variable_list is reached.
UpdateCall ==
    /\ rg_pc \in {"idle", "raised"}
    /\ rg_passes < MaxPasses
    /\ \E table \in VariableTables(MaxVariables - rg_fetched) :
          /\ ctl_variables' = table
          /\ rg_fetched' = rg_fetched + Len(table)
          /\ IF get_number_of_variables(table) = 0
             THEN /\ rg_list' = get_variable_list(table)
                  /\ rg_instance_id' = 1
                  /\ rg_pc' = "update"
             ELSE /\ rg_pc' = "list"
                  /\ UNCHANGED <<rg_list, rg_instance_id>>
    /\ rg_reqs' = <<attribute_all_request(106, 0)>>
    /\ UNCHANGED <<variables, system_variables, user_variables, rg_passes, rg_lookup,
                   vars_rd, vars_wr, vars_rs, vars_cn, vars_cd>>

\* One iteration of the loop of _get_variable_list: the name at offset =
\* tag_index + 1 is read from the instance offset of class 0x6a. After the
\* last name the list is returned, it becomes variable_list and the loop
\* over it is reached with instance_id = 1.
UpdateListName ==
    /\ rg_pc = "list"
    /\ LET offset == Len(rg_reqs)
       IN  /\ rg_reqs' = Append(rg_reqs, attribute_all_request(106, offset))
           /\ IF offset = get_number_of_variables(ctl_variables)
              THEN /\ rg_list' = get_variable_list(ctl_variables)
                   /\ rg_instance_id' = 1
                   /\ rg_pc' = "update"
              ELSE UNCHANGED <<rg_list, rg_instance_id, rg_pc>>
    /\ UNCHANGED <<ctl_variables, variables, system_variables, user_variables, rg_passes,
                   rg_fetched, rg_lookup, vars_rd, vars_wr, vars_rs, vars_cn, vars_cd>>

\* One iteration of the loop over variable_list: the Variable Object of
\* instance_id is read, and when its type code is known the descriptor is
\* filed under the variable's name; a struct.error raised while the reply
\* is read leaves update_variable_dictionary with nothing filed.
UpdateVariable ==
    /\ rg_pc = "update"
    /\ rg_instance_id <= Len(rg_list)
    /\ LET variable == rg_list[rg_instance_id]
           reply == CIPReply(ControllerVariableObjectReply(ctl_variables, rg_instance_id))
           variable_cip_datatype == variable_descriptor(reply, rg_instance_id, variable)
       IN  IF variable_cip_datatype = Raised("struct.error")
           THEN /\ rg_pc' = "raised"
                /\ UNCHANGED <<variables, system_variables, user_variables, rg_instance_id>>
           ELSE /\ rg_pc' = rg_pc
                /\ rg_instance_id' = rg_instance_id + 1
                /\ IF variable_cip_datatype # NoneObject
                   THEN /\ variables' = dict_update(variables, variable, variable_cip_datatype)
                        /\ IF is_system_variable(variable)
                           THEN /\ system_variables' =
                                      dict_update(system_variables, variable,
                                                  variable_cip_datatype)
                                /\ UNCHANGED user_variables
                           ELSE /\ user_variables' =
                                      dict_update(user_variables, variable,
                                                  variable_cip_datatype)
                                /\ UNCHANGED system_variables
                   ELSE UNCHANGED <<variables, system_variables, user_variables>>
    /\ rg_reqs' = Append(rg_reqs, attribute_all_request(107, rg_instance_id))
    /\ UNCHANGED <<ctl_variables, rg_list, rg_passes, rg_fetched, rg_lookup,
                   vars_rd, vars_wr, vars_rs, vars_cn, vars_cd>>

\* The loop is over and update_variable_dictionary returns.
UpdateReturn ==
    /\ rg_pc = "update"
    /\ rg_instance_id > Len(rg_list)
    /\ rg_pc' = "idle"
    /\ rg_passes' = rg_passes + 1
    /\ UNCHANGED <<ctl_variables, variables, system_variables, user_variables, rg_list,
                   rg_instance_id, rg_fetched, rg_lookup, rg_reqs,
                   vars_rd, vars_wr, vars_rs, vars_cn, vars_cd>>

\* Mutant: a scalar is read through a simple data segment as well.
read_variable_through_segment(registry, name) ==
    LET cip_datatype_object == dict_get(registry, name)
        request_path == variable_request_path_segment(name)
                            \o SimpleDataSegmentRequest(0, cip_datatype_object.size)
    IN  IF cip_datatype_object.class \in SegmentedKinds
        THEN [paths |-> <<>>, outcome |-> "segmented"]
        ELSE IF cip_datatype_object = NoneObject
        THEN [paths |-> <<request_path>>, outcome |-> "AttributeError"]
        ELSE [paths |-> <<request_path>>, outcome |-> "value"]

\* read_variable(variable_name) up to its outcome, with the request paths of
\* the requests it sends itself: a segmented class is handed to
\* _multi_message_variable_read; anything else, None included, takes the
\* else branch: one read_tag_service round trip on request_path, then
\* cip_datatype_object.from_bytes, which None does not have.
read_variable(registry, name) ==
    LET request_path == variable_request_path_segment(name)
        cip_datatype_object == dict_get(registry, name)
    IN  IF cip_datatype_object.class \in SegmentedKinds
        THEN [paths |-> <<>>, outcome |-> "segmented"]
        ELSE IF cip_datatype_object = NoneObject
        THEN [paths |-> <<request_path>>, outcome |-> "AttributeError"]
        ELSE [paths |-> <<request_path>>, outcome |-> "value"]

\* write_variable(variable_name, data) up to its outcome:
\* cip_datatype_object.from_value comes first, which None does not have;
\* a class that is not segmented is written with one write_tag_service
\* round trip on request_path.
write_variable(registry, name) ==
    LET request_path == variable_request_path_segment(name)
        cip_datatype_object == dict_get(registry, name)
    IN  IF cip_datatype_object = NoneObject
        THEN [paths |-> <<>>, outcome |-> "AttributeError"]
        ELSE IF cip_datatype_object.class \in SegmentedKinds
        THEN [paths |-> <<>>, outcome |-> "segmented"]
        ELSE [paths |-> <<request_path>>, outcome |-> "returned"]

ReadVariable ==
    /\ rg_pc \in {"idle", "raised"}
    /\ \E name \in LookupNames :
          LET r == read_variable(variables, name)
          IN  rg_lookup' = [op |-> "read_variable", name |-> name,
                            found |-> name \in dict_keys(variables),
                            requests |-> Len(r.paths), paths |-> r.paths,
                            outcome |-> r.outcome]
    /\ rg_pc' = "looked"
    /\ UNCHANGED <<ctl_variables, variables, system_variables, user_variables, rg_list,
                   rg_instance_id, rg_passes, rg_fetched, rg_reqs,
                   vars_rd, vars_wr, vars_rs, vars_cn, vars_cd>>

WriteVariable ==
    /\ rg_pc \in {"idle", "raised"}
    /\ \E name \in LookupNames :
          LET r == write_variable(variables, name)
          IN  rg_lookup' = [op |-> "write_variable", name |-> name,
                            found |-> name \in dict_keys(variables),
                            requests |-> Len(r.paths), paths |-> r.paths,
                            outcome |-> r.outcome]
    /\ rg_pc' = "looked"
    /\ UNCHANGED <<ctl_variables, variables, system_variables, user_variables, rg_list,
                   rg_instance_id, rg_passes, rg_fetched, rg_reqs,
                   vars_rd, vars_wr, vars_rs, vars_cn, vars_cd>>

NextRegistry ==
    \/ UpdateCall
    \/ UpdateListName
    \/ UpdateVariable
    \/ UpdateReturn
    \/ ReadVariable
    \/ WriteVariable

\* ----------------------------------------------------------------- codecs

\* Longest payload of the messages, items and replies encoded and decoded.
MaxPayload == 3

\* The byte strings of length 0..n over the two byte values 0 and 7.
RECURSIVE Payloads(_)
Payloads(n) ==
    IF n = 0 THEN {<<>>}
    ELSE Payloads(n - 1)
         \cup {Append(q, b) : q \in {r \in Payloads(n - 1) : Len(r) = n - 1}, b \in {0, 7}}

\* The prefixes of a byte string.
Prefixes(b) == {SubSeq(b, 1, n) : n \in 0..Len(b)}

\* No codec is exercised.
ParkCodec ==
    /\ cd_pc = "off"
    /\ cd_fn = "none"
    /\ cd_in = Nothing
    /\ cd_obj = Nothing
    /\ cd_buf = <<>>
    /\ cd_dec = Nothing

\* The arguments EIPMessage is constructed with: fields of the valid widths.
EIPMessageArguments ==
    [command             : {<<101, 0>>, <<111, 0>>},
     command_data        : Payloads(MaxPayload),
     session_handle_id   : {<<0, 0, 0, 0>>, <<34, 1, 0, 0>>},
     status              : {<<0, 0, 0, 0>>, <<1, 0, 0, 0>>},
     sender_context_data : {<<0, 0, 0, 0, 0, 0, 0, 0>>, <<1, 2, 3, 4, 5, 6, 7, 8>>},
     command_options     : {<<0, 0, 0, 0>>, <<0, 0, 0, 9>>}]

\* The buffers recv may hand to EIPMessage.from_bytes: a frame of the peer,
\* whole or cut short, with a length field that may not be the length of
\* the payload.
EIPReceivedBuffers ==
    UNION {Prefixes(<<111, 0>> \o ToBytesLE(n, 2) \o <<34, 1, 0, 0>> \o <<0, 0, 0, 0>>
                    \o <<1, 2, 3, 4, 5, 6, 7, 8>> \o <<0, 0, 0, 0>> \o payload) :
           n \in 0..(MaxPayload + 1), payload \in Payloads(MaxPayload)}

InitEIPMessage ==
    /\ cd_fn = "EIPMessage"
    /\ \/ /\ cd_pc = "in"
          /\ cd_in \in EIPMessageArguments
          /\ cd_buf = <<>>
       \/ /\ cd_pc = "buffer"
          /\ cd_in = Nothing
          /\ cd_buf \in EIPReceivedBuffers
    /\ cd_obj = Nothing
    /\ cd_dec = Nothing

\* EIPMessage(command, command_data, ...).
EIPMessageInit ==
    /\ cd_fn = "EIPMessage"
    /\ cd_pc = "in"
    /\ cd_obj' = EIPMessage_init(cd_in.command, cd_in.command_data, cd_in.session_handle_id,
                                 cd_in.status, cd_in.sender_context_data,
                                 cd_in.command_options)
    /\ cd_pc' = "built"
    /\ UNCHANGED <<cd_fn, cd_in, cd_buf, cd_dec, vars_rd, vars_wr, vars_rs, vars_cn, vars_rg>>

\* message.bytes().
EIPMessageBytes ==
    /\ cd_fn = "EIPMessage"
    /\ cd_pc = "built"
    /\ cd_buf' = EIPMessage_bytes(cd_obj)
    /\ cd_pc' = "encoded"
    /\ UNCHANGED <<cd_fn, cd_in, cd_obj, cd_dec, vars_rd, vars_wr, vars_rs, vars_cn, vars_rg>>

\* EIPMessage().from_bytes(buffer).
EIPMessageFromBytes ==
    /\ cd_fn = "EIPMessage"
    /\ cd_pc \in {"encoded", "buffer"}
    /\ cd_dec' = EIPMessage_from_bytes(cd_buf)
    /\ cd_pc' = "decoded"
    /\ UNCHANGED <<cd_fn, cd_in, cd_obj, cd_buf, vars_rd, vars_wr, vars_rs, vars_cn, vars_rg>>

\* Longest list of packet items given to CommonPacketFormat.
MaxItems == 3

NULL_ADDRESS_ITEM == <<0, 0>>

UNCONNECTED_MESSAGE == <<178, 0>>

\* DataAndAddressItem(type_id, data).
DataAndAddressItem(type_id, data) ==
    [type_id |-> type_id, length |-> ToBytesLE(Len(data), 2), data |-> data]

\* self.from_bytes(bytes_data_address_item): the item afterwards.
DataAndAddressItem_from_bytes(self, bytes_data_address_item) ==
    [type_id |-> Slice(bytes_data_address_item, 0, 2),
     length |-> Slice(bytes_data_address_item, 2, 4),
     data |-> SliceFrom(bytes_data_address_item, 4)]

\* DataAndAddressItem.bytes().
DataAndAddressItem_bytes(item) == item.type_id \o item.length \o item.data

\* The bytes of the items of a list, one after the other.
RECURSIVE packets_bytes(_)
packets_bytes(packets) ==
    IF packets = <<>> THEN <<>>
    ELSE DataAndAddressItem_bytes(packets[1]) \o packets_bytes(Tail(packets))

\* Mutant: a single item is put in the first slot.
CommonPacketFormat_first_slot(packets) ==
    LET null == DataAndAddressItem(NULL_ADDRESS_ITEM, <<>>)
        self_packets == IF Len(packets) < 1 THEN <<null, null>>
                        ELSE IF Len(packets) < 2 THEN <<packets[1], null>>
                        ELSE packets
    IN  [packets |-> self_packets, item_count |-> Len(self_packets),
         packet_bytes |-> packets_bytes(self_packets)]

\* CommonPacketFormat(packets).
CommonPacketFormat(packets) ==
    LET null == DataAndAddressItem(NULL_ADDRESS_ITEM, <<>>)
        self_packets == IF Len(packets) < 1 THEN <<null, null>>
                        ELSE IF Len(packets) < 2 THEN <<null, packets[1]>>
                        ELSE packets
    IN  [packets |-> self_packets, item_count |-> Len(self_packets),
         packet_bytes |-> packets_bytes(self_packets)]

\* CommonPacketFormat.bytes().
CommonPacketFormat_bytes(self) == ToBytesLE(self.item_count, 2) \o self.packet_bytes

\* The loop of CommonPacketFormat.from_bytes from packet_offset on: the list
\* self.packets once the loop is over, or IndexError when an item is
\* assigned past the end of the list.
RECURSIVE from_bytes_loop(_, _, _, _)
from_bytes_loop(self_packets, packet_bytes, packet_offset, packet_index) ==
    IF ~(packet_offset < Len(packet_bytes)) THEN [packets |-> self_packets]
    ELSE LET data_address_item_id == Slice(packet_bytes, packet_offset, packet_offset + 2)
             data_address_item_length ==
                 IntFromBytesLE(Slice(packet_bytes, packet_offset + 2, packet_offset + 4))
             data_address_item_data ==
                 Slice(packet_bytes, packet_offset + 4,
                       packet_offset + data_address_item_length + 4)
         IN  IF packet_index >= Len(self_packets) THEN Raised("IndexError")
             ELSE from_bytes_loop(
                      [self_packets EXCEPT ![packet_index + 1] =
                           DataAndAddressItem(data_address_item_id, data_address_item_data)],
                      packet_bytes,
                      packet_offset + data_address_item_length + 4,
                      packet_index + 1)

\* self.from_bytes(bytes_common_packet_format): the object afterwards, or
\* the exception.
CommonPacketFormat_from_bytes(self, b) ==
    LET packet_bytes == SliceFrom(b, 2)
        after == from_bytes_loop(self.packets, packet_bytes, 0, 0)
    IN  IF after = Raised("IndexError") THEN after
        ELSE [packets |-> after.packets,
              item_count |-> IntFromBytesLE(Slice(b, 0, 2)),
              packet_bytes |-> packet_bytes]

\* The items lists are made of.
PacketItems ==
    {DataAndAddressItem(t, d) : t \in {NULL_ADDRESS_ITEM, UNCONNECTED_MESSAGE},
                                d \in {<<>>, <<7>>, <<7, 0, 7>>}}

\* The lists of at most n items.
PacketLists(n) == UNION {[1..k -> PacketItems] : k \in 0..n}

\* The buffers handed to CommonPacketFormat.from_bytes: the encoding of a
\* two-item list, whole or cut short.
CPFReceivedBuffers ==
    UNION {Prefixes(CommonPacketFormat_bytes(CommonPacketFormat(l))) : l \in PacketLists(2)}

InitCPF ==
    /\ cd_fn = "CommonPacketFormat"
    /\ \/ /\ cd_pc = "in"
          /\ cd_in \in [packets : PacketLists(MaxItems)]
          /\ cd_buf = <<>>
       \/ /\ cd_pc = "buffer"
          /\ cd_in = Nothing
          /\ cd_buf \in CPFReceivedBuffers
    /\ cd_obj = Nothing
    /\ cd_dec = Nothing

\* CommonPacketFormat(packets).
CPFInit ==
    /\ cd_fn = "CommonPacketFormat"
    /\ cd_pc = "in"
    /\ cd_obj' = CommonPacketFormat(cd_in.packets)
    /\ cd_pc' = "built"
    /\ UNCHANGED <<cd_fn, cd_in, cd_buf, cd_dec, vars_rd, vars_wr, vars_rs, vars_cn, vars_rg>>

\* from_bytes of an item of the caller's list, before the list is given to
\* CommonPacketFormat or after, from a buffer whose length field is not the
\* length of its data or one that ends after the type id. The item is the
\* same object in the caller's list and in self.packets (the list itself
\* when it has two items or more, the second slot when it has one), and
\* packet_bytes, put together in the constructor, stays as it is.
ItemFromBytes ==
    /\ cd_fn = "CommonPacketFormat"
    /\ cd_pc \in {"in", "built", "changed", "encoded", "stale", "decoded"}
    /\ cd_in # Nothing
    /\ \E k \in 1..Len(cd_in.packets) : \E b \in {<<178, 0, 5, 0, 7>>, <<178, 0>>} :
          LET item == DataAndAddressItem_from_bytes(cd_in.packets[k], b)
              slot == IF Len(cd_in.packets) = 1 THEN 2 ELSE k
          IN  /\ cd_in' = [cd_in EXCEPT !.packets[k] = item]
              /\ IF cd_pc = "in"
                 THEN UNCHANGED <<cd_obj, cd_pc>>
                 ELSE /\ cd_obj' = [cd_obj EXCEPT !.packets[slot] = item]
                      /\ cd_pc' = "changed"
    /\ UNCHANGED <<cd_fn, cd_buf, cd_dec, vars_rd, vars_wr, vars_rs, vars_cn, vars_rg>>

\* common_packet_format.bytes(), of an object as it was built ("encoded")
\* or with an item changed since ("stale").
CPFBytes ==
    /\ cd_fn = "CommonPacketFormat"
    /\ cd_pc \in {"built", "changed"}
    /\ cd_buf' = CommonPacketFormat_bytes(cd_obj)
    /\ cd_pc' = (IF cd_pc = "built" THEN "encoded" ELSE "stale")
    /\ UNCHANGED <<cd_fn, cd_in, cd_obj, cd_dec, vars_rd, vars_wr, vars_rs, vars_cn, vars_rg>>

\* CommonPacketFormat([]).from_bytes(buffer), as send_rr_data and
\* cip_reply_from_eip_message decode.
CPFFromBytes ==
    /\ cd_fn = "CommonPacketFormat"
    /\ cd_pc \in {"encoded", "stale", "buffer"}
    /\ cd_dec' = CommonPacketFormat_from_bytes(CommonPacketFormat(<<>>), cd_buf)
    /\ cd_pc' = "decoded"
    /\ UNCHANGED <<cd_fn, cd_in, cd_obj, cd_buf, vars_rd, vars_wr, vars_rs, vars_cn, vars_rg>>

\* Largest number of extended status words of a CIP reply.
MaxExtWords == 2

\* CIPReply.bytes().
CIPReply_bytes(self) ==
    self.reply_service \o self.reserved \o self.general_status
    \o self.extended_status_size \o self.extended_status \o self.reply_data

\* The extended status of k words a reply carries: the bytes 17, 18, ...
ExtendedStatusBytes(k) == [i \in 1..(2 * k) |-> 16 + i]

\* The CIP replies of the peer: service, reserved, general status, number of
\* extended status words, those words, the data.
CIPReplyFields ==
    [general_status : {0, 5}, ext_status_words : 0..MaxExtWords,
     reply_data : Payloads(MaxPayload)]

\* The bytes of such a reply.
CIPReplyFrame(f) ==
    <<204, 0, f.general_status, f.ext_status_words>>
    \o ExtendedStatusBytes(f.ext_status_words) \o f.reply_data

\* A reply of the peer reaches CIPReply whole or cut short.
InitCIPReply ==
    /\ cd_fn = "CIPReply"
    /\ cd_pc = "buffer"
    /\ cd_in \in CIPReplyFields
    /\ cd_buf \in Prefixes(CIPReplyFrame(cd_in))
    /\ cd_obj = Nothing
    /\ cd_dec = Nothing

\* CIPReply(reply_bytes).
CIPReplyInit ==
    /\ cd_fn = "CIPReply"
    /\ cd_pc = "buffer"
    /\ cd_dec' = CIPReply(cd_buf)
    /\ cd_pc' = "decoded"
    /\ UNCHANGED <<cd_fn, cd_in, cd_obj, cd_buf, vars_rd, vars_wr, vars_rs, vars_cn, vars_rg>>

\* cip_reply.bytes() of the decoded reply.
CIPReplyBytes ==
    /\ cd_fn = "CIPReply"
    /\ cd_pc = "decoded"
    /\ cd_obj' = [bytes |-> CIPReply_bytes(cd_dec)]
    /\ cd_pc' = "reencoded"
    /\ UNCHANGED <<cd_fn, cd_in, cd_buf, cd_dec, vars_rd, vars_wr, vars_rs, vars_cn, vars_rg>>

\* ------------------------------------------------------- session operations

\* CommandSpecificData.from_bytes: the encapsulated packet of a payload.
CommandSpecificData_encapsulated_packet(bytes_command_specific_data) ==
    SliceFrom(bytes_command_specific_data, 6)

\* The public methods of EIP whose call goes through send_command.
Operations ==
    {"register_session", "send_rr_data", "list_services", "list_identity",
     "list_interfaces", "read_tag", "get_variable"}

\* The argument each operation is called with: command_data of
\* register_session, command_specific_data of send_rr_data, tag_name ("V")
\* of read_tag, route_path of get_variable; the others take none.
OperationArguments(op) ==
    CASE op = "register_session" -> {<<1, 0, 0, 0>>, <<>>}
      [] op = "send_rr_data" -> {CommandSpecificData_bytes(<<0, 0, 0, 0>>, <<8, 0>>, <<>>)}
      [] op = "read_tag" -> {<<86>>}
      [] op = "get_variable" -> {<<32, 106, 36, 1>>}
      [] OTHER -> {<<>>}

\* The handle send_rr_data puts into its message.
rr_session_handle(handle) == handle

\* read_tag and get_variable: the command specific data wrapped around a CIP
\* request, one unconnected data item in a common packet format.
unconnected_command_specific_data(cip_message) ==
    LET data_address_item == DataAndAddressItem(UNCONNECTED_MESSAGE, CIPRequest_bytes(cip_message))
        common_packet_format == CommonPacketFormat(<<data_address_item>>)
    IN  CommandSpecificData_bytes(<<0, 0, 0, 0>>, <<8, 0>>,
                                  CommonPacketFormat_bytes(common_packet_format))

\* The message send_rr_data hands to send_command.
send_rr_data_message(command_specific_data, handle) ==
    EIPMessage(<<111, 0>>, command_specific_data, rr_session_handle(handle))

\* The message each operation hands to send_command.
request_message(op, argument, handle) ==
    CASE op = "register_session" -> EIPMessage(<<101, 0>>, argument, <<0, 0, 0, 0>>)
      [] op = "send_rr_data" -> send_rr_data_message(argument, handle)
      [] op = "read_tag" ->
            send_rr_data_message(
                unconnected_command_specific_data(
                    CIPRequest(<<READ_TAG_SERVICE>>, tag_request_path(argument), <<1, 0>>)),
                handle)
      [] op = "get_variable" ->
            send_rr_data_message(
                unconnected_command_specific_data(CIPRequest(<<1>>, argument, <<>>)),
                handle)
      [] op = "list_services" -> EIPMessage(<<4, 0>>, <<>>, <<0, 0, 0, 0>>)
      [] op = "list_identity" -> EIPMessage(<<99, 0>>, <<>>, <<0, 0, 0, 0>>)
      [] op = "list_interfaces" -> EIPMessage(<<100, 0>>, <<>>, <<0, 0, 0, 0>>)

\* send_command: whether it sends and receives (connected) or returns the
\* default message at once.
send_command_sends(connected) == connected

\* What an operation does with the message send_command returned:
\* send_rr_data, and read_tag and get_variable through it, decodes the
\* common packet format of the reply, which raises IndexError on a third
\* item; the others only read fields.
operation_outcome(op, response) ==
    IF op \in {"send_rr_data", "read_tag", "get_variable"}
    THEN LET reply_packet ==
                 CommonPacketFormat_from_bytes(
                     CommonPacketFormat(<<>>),
                     CommandSpecificData_encapsulated_packet(response.command_data))
         IN  IF reply_packet = Raised("IndexError") THEN "IndexError" ELSE "returned"
    ELSE "returned"

\* The session handles the controller may assign.
SessionHandles == {<<17, 0, 0, 0>>, <<34, 1, 0, 0>>}

\* The frame with which the controller answers a request: a registration is
\* answered with the handle h it assigns; a send-request/reply-data message
\* with the handle field of the request and a null address item and an
\* unconnected data item that holds a CIP reply; other requests with the
\* header alone.
ControllerFrame(request_bytes, h) ==
    LET command == Slice(request_bytes, 0, 2)
    IN  IF command = <<101, 0>>
        THEN EIPMessage_bytes(EIPMessage(command, <<1, 0, 0, 0>>, h))
        ELSE IF command = <<111, 0>>
        THEN EIPMessage_bytes(EIPMessage(command,
                 CommandSpecificData_bytes(<<0, 0, 0, 0>>, <<0, 0>>,
                     CommonPacketFormat_bytes(CommonPacketFormat(
                         <<DataAndAddressItem(UNCONNECTED_MESSAGE, <<204, 0, 0, 0>>)>>))),
                 Slice(request_bytes, 4, 8)))
        ELSE EIPMessage_bytes(EIPMessage(command, <<>>, <<0, 0, 0, 0>>))

\* The number of bytes one recv may return of a frame: none (the peer has
\* closed the connection), the first 6, the 24 of the header, all of it.
RecvLengths(frame) == {n \in {0, 6, 24, Len(frame)} : n <= Len(frame)}

\* register_session after send_command has returned response; the other
\* operations leave the session fields alone.
has_session_handle_after(op, response) ==
    IF op = "register_session" THEN TRUE ELSE has_session_handle

session_handle_id_after(op, response) ==
    IF op = "register_session" THEN response.session_handle_id ELSE session_handle_id

\* close_explicit: the two flags it sets.
close_explicit_flags == [is_connected_explicit |-> FALSE, has_session_handle |-> FALSE]

\* cn_inv before any invocation: the operation, is_connected_explicit at the
\* call, the messages sent and the buffers received by the invocation, how
\* it ended ("running" | "returned" | "raised") and whether it returned the
\* default message.
NoInvocation == [op |-> "none", connected |-> FALSE, sent |-> 0, rcvd |-> 0,
                 state |-> "none", default |-> FALSE]

\* cn_reg when the latest register_session received no reply.
NoRegistration == [got |-> FALSE, frame |-> <<>>]

\* last_sent before anything is sent.
NoMessage == [bytes |-> <<>>, reg |-> NoRegistration]

\* cn_inv of an invocation made now.
Invocation(op, sent, state, default) ==
    [op |-> op, connected |-> is_connected_explicit, sent |-> sent, rcvd |-> 0,
     state |-> state, default |-> default]

\* EIP.__init__.
InitConn ==
    /\ sock = "fresh"
    /\ is_connected_explicit = FALSE
    /\ has_session_handle = FALSE
    /\ session_handle_id = <<0, 0, 0, 0, 0, 0, 0, 0>>
    /\ cn_pc = "idle"
    /\ cn_op = "none"
    /\ cn_ops = 0
    /\ last_sent = NoMessage
    /\ last_rcvd = <<>>
    /\ outstanding = 0
    /\ cn_inv = NoInvocation
    /\ cn_reg = NoRegistration
    /\ cn_closed_sent = -1
    /\ cn_last = "init"

\* No EIP object is in use.
ParkConn ==
    /\ sock = "none"
    /\ is_connected_explicit = FALSE
    /\ has_session_handle = FALSE
    /\ session_handle_id = <<>>
    /\ cn_pc = "off"
    /\ cn_op = "none"
    /\ cn_ops = 0
    /\ last_sent = NoMessage
    /\ last_rcvd = <<>>
    /\ outstanding = 0
    /\ cn_inv = NoInvocation
    /\ cn_reg = NoRegistration
    /\ cn_closed_sent = -1
    /\ cn_last = "init"

\* connect_explicit: socket.connect succeeds only on a socket that is
\* neither connected nor closed, and may fail there too (refused, timeout);
\* on socket.error the socket is closed and the flag cleared.
ConnectExplicit ==
    /\ cn_pc = "idle"
    /\ cn_ops < MaxOps
    /\ cn_ops' = cn_ops + 1
    /\ \E connects \in (IF sock = "fresh" THEN BOOLEAN ELSE {FALSE}) :
          IF connects
          THEN /\ sock' = "connected"
               /\ is_connected_explicit' = TRUE
               /\ UNCHANGED outstanding
          ELSE /\ sock' = "closed"
               /\ is_connected_explicit' = FALSE
               /\ outstanding' = 0
    /\ cn_last' = "connect_explicit"
    /\ UNCHANGED <<has_session_handle, session_handle_id, cn_pc, cn_op, last_sent,
                   last_rcvd, cn_inv, cn_reg, cn_closed_sent,
                   vars_rd, vars_wr, vars_rs, vars_rg, vars_cd>>

\* close_explicit.
CloseExplicit ==
    /\ cn_pc = "idle"
    /\ cn_ops < MaxOps
    /\ cn_ops' = cn_ops + 1
    /\ is_connected_explicit' = close_explicit_flags.is_connected_explicit
    /\ has_session_handle' = close_explicit_flags.has_session_handle
    /\ sock' = "closed"
    /\ outstanding' = 0
    /\ cn_closed_sent' = 0
    /\ cn_last' = "close_explicit"
    /\ UNCHANGED <<session_handle_id, cn_pc, cn_op, last_sent, last_rcvd, cn_inv, cn_reg,
                   vars_rd, vars_wr, vars_rs, vars_rg, vars_cd>>

\* An operation builds its message and calls send_command, up to recv.
\* Connected: socket.send sends the bytes, or raises (the peer has reset the
\* connection, the socket is closed) and the operation ends with the error.
\* Not connected: send_command returns the default message at once and the
\* operation completes with it.
CallOperation ==
    /\ cn_pc = "idle"
    /\ cn_ops < MaxOps
    /\ cn_ops' = cn_ops + 1
    /\ \E op \in Operations : \E argument \in OperationArguments(op) :
       LET eip_command == request_message(op, argument, session_handle_id)
       IN  IF send_command_sends(is_connected_explicit)
           THEN \E sends \in (IF sock = "connected" THEN BOOLEAN ELSE {FALSE}) :
                  IF sends
                  THEN /\ last_sent' = [bytes |-> EIPMessage_bytes(eip_command),
                                        reg |-> cn_reg]
                       /\ outstanding' = outstanding + 1
                       /\ cn_closed_sent' =
                              (IF cn_closed_sent >= 0 THEN cn_closed_sent + 1 ELSE cn_closed_sent)
                       /\ cn_pc' = "sent"
                       /\ cn_op' = op
                       /\ cn_inv' = Invocation(op, 1, "running", FALSE)
                       /\ UNCHANGED <<sock, has_session_handle, session_handle_id,
                                      cn_reg, cn_last>>
                  ELSE /\ sock' = (IF sock = "connected" THEN "broken" ELSE sock)
                       /\ outstanding' = 0
                       /\ cn_inv' = Invocation(op, 0, "raised", FALSE)
                       /\ cn_last' = "IoError"
                       /\ UNCHANGED <<last_sent, cn_closed_sent, cn_pc, cn_op,
                                      has_session_handle, session_handle_id, cn_reg>>
           ELSE LET outcome == operation_outcome(op, EIPMessage_default)
                IN  /\ cn_inv' = Invocation(op, 0,
                                     IF outcome = "returned" THEN "returned" ELSE "raised",
                                     TRUE)
                    /\ has_session_handle' = has_session_handle_after(op, EIPMessage_default)
                    /\ session_handle_id' = session_handle_id_after(op, EIPMessage_default)
                    /\ cn_reg' = (IF op = "register_session" THEN NoRegistration ELSE cn_reg)
                    /\ cn_last' = (IF outcome = "returned" THEN op ELSE outcome)
                    /\ UNCHANGED <<sock, last_sent, cn_closed_sent, outstanding, cn_pc, cn_op>>
    /\ UNCHANGED <<is_connected_explicit, last_rcvd, vars_rd, vars_wr, vars_rs, vars_rg, vars_cd>>

\* send_command from recv on: recv returns the controller's frame, or the
\* first bytes of it, or nothing when the peer has closed the connection;
\* from_bytes fills the message from whatever came, send_command returns it
\* and the operation completes with it.
SendCommandRecv ==
    /\ cn_pc = "sent"
    /\ \E h \in SessionHandles :
       \E n \in RecvLengths(ControllerFrame(last_sent.bytes, h)) :
          LET received_data == SubSeq(ControllerFrame(last_sent.bytes, h), 1, n)
              response == EIPMessage_from_bytes(received_data)
              outcome == operation_outcome(cn_op, response)
          IN  /\ last_rcvd' = received_data
              /\ has_session_handle' = has_session_handle_after(cn_op, response)
              /\ session_handle_id' = session_handle_id_after(cn_op, response)
              /\ cn_reg' = (IF cn_op = "register_session"
                            THEN [got |-> TRUE, frame |-> received_data]
                            ELSE cn_reg)
              /\ cn_inv' = [cn_inv EXCEPT !.rcvd = 1,
                                          !.state = IF outcome = "returned"
                                                    THEN "returned" ELSE "raised"]
              /\ cn_last' = (IF outcome = "returned" THEN cn_op ELSE outcome)
    /\ outstanding' = outstanding - 1
    /\ cn_pc' = "idle"
    /\ cn_op' = "none"
    /\ UNCHANGED <<sock, is_connected_explicit, cn_ops, last_sent, cn_closed_sent,
                   vars_rd, vars_wr, vars_rs, vars_rg, vars_cd>>

\* recv raises: the peer has reset the connection while the request was
\* outstanding; the error leaves send_command and the operation.
SendCommandRecvError ==
    /\ cn_pc = "sent"
    /\ sock' = "broken"
    /\ outstanding' = 0
    /\ cn_inv' = [cn_inv EXCEPT !.state = "raised"]
    /\ cn_pc' = "idle"
    /\ cn_op' = "none"
    /\ cn_last' = "IoError"
    /\ UNCHANGED <<is_connected_explicit, has_session_handle, session_handle_id, cn_ops,
                   last_sent, last_rcvd, cn_reg, cn_closed_sent,
                   vars_rd, vars_wr, vars_rs, vars_rg, vars_cd>>

NextConn ==
    \/ ConnectExplicit
    \/ CloseExplicit
    \/ CallOperation
    \/ SendCommandRecv
    \/ SendCommandRecvError

\* ---------------------------------------------------------- specifications

InitReadOnly == InitRead /\ ParkWrite /\ ParkResolve /\ ParkConn /\ ParkRegistry /\ ParkCodec

SpecRead == InitReadOnly /\ [][NextRead]_vars

InitWriteOnly == ParkRead /\ InitWrite /\ ParkResolve /\ ParkConn /\ ParkRegistry /\ ParkCodec

SpecWrite == InitWriteOnly /\ [][NextWrite]_vars

InitTransfer == InitReadOnly \/ InitWriteOnly

NextTransfer == NextRead \/ NextWrite

SpecTransfer == InitTransfer /\ [][NextTransfer]_vars

InitResolveOnly == ParkRead /\ ParkWrite /\ InitResolve /\ ParkConn /\ ParkRegistry /\ ParkCodec

SpecResolve == InitResolveOnly /\ [][NextResolve]_vars

InitConnOnly == ParkRead /\ ParkWrite /\ ParkResolve /\ InitConn /\ ParkRegistry /\ ParkCodec

SpecConn == InitConnOnly /\ [][NextConn]_vars

InitRegistryOnly ==
    ParkRead /\ ParkWrite /\ ParkResolve /\ ParkConn /\ InitRegistry /\ ParkCodec

SpecRegistry == InitRegistryOnly /\ [][NextRegistry]_vars

InitEIPMessageOnly ==
    ParkRead /\ ParkWrite /\ ParkResolve /\ ParkConn /\ ParkRegistry /\ InitEIPMessage

NextEIPMessage ==
    \/ EIPMessageInit
    \/ EIPMessageBytes
    \/ EIPMessageFromBytes

SpecEIPMessage == InitEIPMessageOnly /\ [][NextEIPMessage]_vars

InitCPFOnly ==
    ParkRead /\ ParkWrite /\ ParkResolve /\ ParkConn /\ ParkRegistry /\ InitCPF

NextCPF ==
    \/ CPFInit
    \/ ItemFromBytes
    \/ CPFBytes
    \/ CPFFromBytes

SpecCPF == InitCPFOnly /\ [][NextCPF]_vars

InitCIPReplyOnly ==
    ParkRead /\ ParkWrite /\ ParkResolve /\ ParkConn /\ ParkRegistry /\ InitCIPReply

NextCIPReply ==
    \/ CIPReplyInit
    \/ CIPReplyBytes

SpecCIPReply == InitCIPReplyOnly /\ [][NextCIPReply]_vars

\* The three decoders together.
InitDecoders == InitEIPMessageOnly \/ InitCPFOnly \/ InitCIPReplyOnly

NextDecoders ==
    \/ EIPMessageInit
    \/ EIPMessageBytes
    \/ EIPMessageFromBytes
    \/ CPFInit
    \/ ItemFromBytes
    \/ CPFBytes
    \/ CPFFromBytes
    \/ CIPReplyInit
    \/ CIPReplyBytes

SpecDecoders == InitDecoders /\ [][NextDecoders]_vars

\* ------------------------------------------------------------------ claims

CeilDiv(a, b) == (a + b - 1) \div b

\* The (offset, size) a request path carries in its simple data segment,
\* the last 8 bytes of the path: 0x80, 0x03, offset (4), size (2).
SegOffset(path) == IntFromBytesLE(SubSeq(path, Len(path) - 5, Len(path) - 2))

SegSize(path) == IntFromBytesLE(SubSeq(path, Len(path) - 1, Len(path)))

SegMarked(path) == Len(path) >= 8 /\ path[Len(path) - 7] = 128 /\ path[Len(path) - 6] = 3

RECURSIVE SumSeq(_)
SumSeq(q) == IF q = <<>> THEN 0 ELSE q[1] + SumSeq(Tail(q))

ReadAllOk == \A i \in 1..Len(rd_status) : rd_status[i] = 0

\* C1: a segmented read of a string of declared size S, every reply
\* successful, has issued exactly ceil(S / (MAXIMUM_LENGTH - 8)) read round
\* trips when it returns, for every S >= 0 (none for S = 0).
C1_ReadRoundTrips ==
    (rd_pc = "done" /\ rd_kind = "CIPString" /\ ReadAllOk)
        => /\ Len(rd_reqs) = CeilDiv(rd_size, MAXIMUM_LENGTH - 8)
           /\ Len(rd_status) = Len(rd_reqs)

C1_Witness ==
    /\ rd_pc = "done" /\ rd_kind = "CIPString" /\ ReadAllOk
    /\ rd_size = 2 * (MAXIMUM_LENGTH - 8)
    /\ Len(rd_reqs) = 2

\* C2: the i-th request of a segmented read carries offset (i-1)*max_chunk
\* and chunk = min(S - offset, max_chunk); the ranges asked for are non-empty,
\* each starts where the one before ends, the first starts at 0 and, when the
\* read has returned, the last ends at S: increasing, disjoint, covering [0,S).
C2_ReadRanges ==
    LET C == MAXIMUM_LENGTH - 8
        n == Len(rd_reqs)
    IN  /\ \A i \in 1..n :
              /\ SegMarked(rd_reqs[i])
              /\ SegOffset(rd_reqs[i]) = (i - 1) * C
              /\ SegSize(rd_reqs[i]) = Min(rd_size - SegOffset(rd_reqs[i]), C)
              /\ SegSize(rd_reqs[i]) > 0
        /\ \A i \in 1..(n - 1) :
              SegOffset(rd_reqs[i]) + SegSize(rd_reqs[i]) = SegOffset(rd_reqs[i + 1])
        /\ rd_pc = "done" =>
              IF rd_size = 0 THEN n = 0
              ELSE n > 0 /\ SegOffset(rd_reqs[n]) + SegSize(rd_reqs[n]) = rd_size

C2_Witness ==
    /\ rd_pc = "done"
    /\ Len(rd_reqs) = 3
    /\ SegOffset(rd_reqs[3]) = 2 * (MAXIMUM_LENGTH - 8)
    /\ SegSize(rd_reqs[3]) < MAXIMUM_LENGTH - 8

\* C3: when every reply to a segmented read of a string of declared size S
\* is the per-chunk header followed by exactly the chunk's payload bytes, the
\* buffer handed to the decoder has length exactly S: it is the S bytes of
\* the value, the header of every chunk stripped.
C3_ReadBufferLength ==
    (rd_pc = "done" /\ rd_kind = "CIPString" /\ ReadAllOk)
        => /\ Len(rd_data) = rd_size
           /\ \A i \in 1..Len(rd_data) : rd_data[i] = MemByte(i - 1)

C3_Witness ==
    /\ rd_pc = "done" /\ rd_kind = "CIPString" /\ ReadAllOk
    /\ Len(rd_reqs) = 3
    /\ Len(rd_data) > 2 * (MAXIMUM_LENGTH - 8)

\* C4: in a segmented write of an array of declared size S every request
\* but the last declares exactly 400 bytes in its simple data segment, no
\* request declares more, and when the write has returned the declared sizes
\* add up to S.
C4_WriteChunkSizes ==
    wr_kind = "CIPArray" =>
        LET n == Len(wr_reqs)
            sizes == [i \in 1..n |-> SegSize(wr_reqs[i].path)]
        IN  /\ \A i \in 1..n : SegMarked(wr_reqs[i].path)
            /\ \A i \in 1..(n - 1) : sizes[i] = 400
            /\ \A i \in 1..n : sizes[i] <= 400 /\ sizes[i] > 0
            /\ wr_pc = "done" => (wr_result = "returned" /\ SumSeq(sizes) = wr_size)

C4_Witness ==
    /\ wr_pc = "done" /\ wr_kind = "CIPArray"
    /\ Len(wr_reqs) = 3
    /\ SegSize(wr_reqs[3].path) < 400

\* C5: once a reply to a chunk of a segmented read or write carries
\* general_status # 0, no further chunk request is issued and the operation
\* does not return normally (a read returns no value).
C5_AbortOnErrorStatus ==
    /\ \A i \in 1..Len(rd_status) :
          rd_status[i] # 0 => (Len(rd_reqs) = i /\ rd_result # "value")
    /\ \A i \in 1..Len(wr_status) :
          wr_status[i] # 0 => (Len(wr_reqs) = i /\ wr_result # "returned")

\* The member chain the controller holds: the instance ids from id on, each
\* the next_instance_id of the one before, up to the terminator 0 (or until
\* fuel steps are made).
RECURSIVE ChainFrom(_, _, _)
ChainFrom(table, id, fuel) ==
    IF id = 0 \/ fuel = 0 THEN <<>>
    ELSE <<id>> \o ChainFrom(table, table[id].next, fuel - 1)

RECURSIVE ChainEnds(_, _, _)
\* The chain from id reaches the terminator 0 within fuel steps.
ChainEnds(table, id, fuel) ==
    IF id = 0 THEN TRUE
    ELSE IF fuel = 0 THEN FALSE
    ELSE ChainEnds(table, table[id].next, fuel - 1)

\* The chain of the structure under resolution and its members' names.
StructChain == ChainFrom(vto, vto[1].nesting, NumTypeObjects + 1)

StructChainNames == [i \in 1..Len(StructChain) |-> vto[StructChain[i]].name]

\* C6: structure resolution terminates on every controller reply sequence,
\* also when the next_instance_id values of the member chain form a cycle:
\* the member loop is never again about to start from a member instance id
\* and member list it has started from before (from there the walk, which
\* the replies determine, would repeat itself forever); a chain guard
\* rejects the walk before that.
C6_ResolutionTerminates ==
    ~(rs_pc = "walk" /\ <<rs_member_id, rs_members>> \in rs_seen)

\* C7: the resolved structure has exactly one member per node of its
\* (finite) member chain, named as the nodes are, in chain order.
C7_OneMemberPerNode ==
    (rs_pc = "done" /\ rs_class = "CIPStructure") =>
        /\ Len(rs_members) = Len(StructChain)
        /\ \A i \in 1..Len(rs_members) : rs_members[i].name = StructChainNames[i]

\* What the latest send_command invocation has sent and received so far.
InvSent == cn_inv.sent

InvRcvd == cn_inv.rcvd

\* The session-handle field of an encapsulated message: the bytes at
\* offsets 4 to 8 of the header, as many of them as there are.
HandleField(bytes) == Slice(bytes, 4, 8)

IsSendRRData(bytes) == Slice(bytes, 0, 2) = <<111, 0>>

\* C8 as stated: every send_command invocation that has returned, in
\* whatever connection state it was made, sent exactly one message and
\* received exactly one reply frame; never more than one request is
\* outstanding.
C8_EveryInvocationOneRoundTrip ==
    /\ cn_inv.state = "returned" => (InvSent = 1 /\ InvRcvd = 1)
    /\ outstanding <= 1

\* C9 as stated: after a register_session that received a reply the stored
\* session handle is the four-byte session-handle field of that reply, the
\* client holds a session, and the send-request/reply-data (0x6F) message
\* sent after it carries that handle in the handle field of its header.
C9_SessionHandleReused ==
    /\ cn_reg.got =>
           /\ Len(session_handle_id) = 4
           /\ session_handle_id = HandleField(cn_reg.frame)
    /\ (cn_reg.got /\ cn_last = "register_session") => has_session_handle
    /\ (IsSendRRData(last_sent.bytes) /\ last_sent.reg.got) =>
           /\ Len(last_sent.bytes) >= 24
           /\ HandleField(last_sent.bytes) = HandleField(last_sent.reg.frame)

\* C10: once close_explicit has run the session stays invalidated:
\* is_connected_explicit and has_session_handle are false, and no message at
\* all is sent by any later operation (the closed socket never connects
\* again, so no new connect and register_session can come first), so none
\* that carries the old session handle.
C10_SessionInvalidatedOnClose ==
    cn_closed_sent >= 0 =>
        /\ ~is_connected_explicit
        /\ ~has_session_handle
        /\ cn_closed_sent = 0
        /\ outstanding = 0

\* C11: a read_variable or write_variable of a name that is not in the
\* registry ends by reporting NameNotFound to the caller.
C11_AbsentNameReported ==
    (rg_lookup.op # "none" /\ ~rg_lookup.found) => rg_lookup.outcome = "NameNotFound"

\* A name starts with the reserved marker '_'.
HasMarker(name) == name # <<>> /\ name[1] = 95

\* C12: at the end of every discovery pass every name of the registry is in
\* exactly one partition, with the descriptor the registry has for it: in
\* the system partition iff its first character is '_', otherwise in the
\* user partition; the partitions are disjoint and their union is the
\* registry.
C12_RegistryPartitioned ==
    (rg_pc = "idle" /\ rg_passes >= 1) =>
        /\ dict_keys(system_variables) \cap dict_keys(user_variables) = {}
        /\ dict_keys(system_variables) \cup dict_keys(user_variables) = dict_keys(variables)
        /\ \A name \in dict_keys(variables) :
              /\ name \in dict_keys(system_variables) <=> HasMarker(name)
              /\ name \in dict_keys(user_variables) <=> ~HasMarker(name)
              /\ HasMarker(name)
                    => dict_get(system_variables, name) = dict_get(variables, name)
              /\ ~HasMarker(name)
                    => dict_get(user_variables, name) = dict_get(variables, name)

\* Two passes have filed "_S" and, from a later pass, "V_" and "".
C12_Witness ==
    /\ rg_pc = "idle"
    /\ rg_passes = 2
    /\ dict_keys(system_variables) = {<<95, 83>>}
    /\ dict_keys(user_variables) = {<<86, 95>>, <<>>}
    /\ Len(ctl_variables) = 2
    /\ variables[1].name = <<95, 83>>

\* The length field of an EIPMessage object is the length of its payload.
LengthIsPayloadLength(m) ==
    Len(m.length) = 2 /\ IntFromBytesLE(m.length) = Len(m.command_data)

\* C13: in every EIPMessage object, built by the constructor or filled by
\* from_bytes from a received buffer, the length field equals the byte
\* length of command_data.
C13_LengthMatchesPayload ==
    cd_fn = "EIPMessage" =>
        /\ cd_obj # Nothing => LengthIsPayloadLength(cd_obj)
        /\ cd_dec # Nothing => LengthIsPayloadLength(cd_dec)

\* C14: decoding the bytes of a message constructed from fields of the valid
\* widths gives a message equal to it in every field, the fields being the
\* constructor's arguments and the length that of the payload.
C14_EncapsulationRoundTrip ==
    (cd_fn = "EIPMessage" /\ cd_pc = "decoded" /\ cd_in # Nothing) =>
        /\ cd_dec = cd_obj
        /\ cd_dec.command = cd_in.command
        /\ cd_dec.length = ToBytesLE(Len(cd_in.command_data), 2)
        /\ cd_dec.session_handle_id = cd_in.session_handle_id
        /\ cd_dec.status = cd_in.status
        /\ cd_dec.sender_context_data = cd_in.sender_context_data
        /\ cd_dec.command_options = cd_in.command_options
        /\ cd_dec.command_data = cd_in.command_data

\* A message with a three-byte payload and no field at its default, decoded
\* from its 27 bytes.
C14_Witness ==
    /\ cd_fn = "EIPMessage"
    /\ cd_pc = "decoded"
    /\ cd_in # Nothing
    /\ Len(cd_buf) = 27
    /\ cd_dec.command_data = <<7, 0, 7>>
    /\ cd_dec.session_handle_id = <<34, 1, 0, 0>>
    /\ cd_dec.status = <<1, 0, 0, 0>>
    /\ cd_dec.sender_context_data = <<1, 2, 3, 4, 5, 6, 7, 8>>
    /\ cd_dec.command_options = <<0, 0, 0, 9>>

\* C16: a CommonPacketFormat given exactly one item has item count 2, a
\* null address item with empty data first and the given item second, and
\* the bytes of the object as it was built are the count 02 00, the null
\* item 00 00 00 00 and the item.
C16_SingleItemPadded ==
    (cd_fn = "CommonPacketFormat" /\ cd_in # Nothing /\ cd_obj # Nothing) =>
        (Len(cd_in.packets) = 1 =>
            /\ cd_obj.item_count = 2
            /\ Len(cd_obj.packets) = 2
            /\ cd_obj.packets[1] = [type_id |-> <<0, 0>>, length |-> <<0, 0>>, data |-> <<>>]
            /\ cd_obj.packets[2] = cd_in.packets[1]
            /\ cd_pc = "encoded" =>
                  cd_buf = <<2, 0>> \o <<0, 0, 0, 0>>
                           \o cd_in.packets[1].type_id \o cd_in.packets[1].length
                           \o cd_in.packets[1].data)

\* The single unconnected-message item 07 00 07, encoded.
C16_Witness ==
    /\ cd_fn = "CommonPacketFormat"
    /\ cd_pc = "encoded"
    /\ cd_in # Nothing
    /\ cd_in.packets = <<[type_id |-> <<178, 0>>, length |-> <<3, 0>>, data |-> <<7, 0, 7>>]>>
    /\ cd_buf = <<2, 0, 0, 0, 0, 0, 178, 0, 3, 0, 7, 0, 7>>

\* C17: decoding the bytes of a CommonPacketFormat built from a list of 0 to
\* MaxItems items gives the original list, and an item count equal to the
\* number of decoded items.
C17_PacketListRoundTrip ==
    (cd_fn = "CommonPacketFormat" /\ cd_pc = "decoded" /\ cd_in # Nothing) =>
        /\ cd_dec # Raised("IndexError")
        /\ cd_dec.packets = cd_in.packets
        /\ cd_dec.item_count = Len(cd_dec.packets)

\* An item of the packet bytes from offset on has a header or a declared
\* length that reads past the end of the bytes.
RECURSIVE ItemPastEnd(_, _)
ItemPastEnd(packet_bytes, offset) ==
    IF offset >= Len(packet_bytes) THEN FALSE
    ELSE IF offset + 4 > Len(packet_bytes) THEN TRUE
    ELSE LET n == IntFromBytesLE(SubSeq(packet_bytes, offset + 3, offset + 4))
         IN  IF offset + 4 + n > Len(packet_bytes) THEN TRUE
             ELSE ItemPastEnd(packet_bytes, offset + 4 + n)

\* A CIP reply body is shorter than 4 + 2 * ext_status_words.
ReplyTooShort(b) == Len(b) < 4 \/ Len(b) < 4 + 2 * b[4]

\* C15: a decoder given a buffer shorter than a structurally required
\* offset ends with a decode error: EIPMessage.from_bytes for fewer than 24
\* bytes, CommonPacketFormat.from_bytes for an item that reads past the end
\* of the buffer, CIPReply for a body shorter than 4 + 2 * ext_status_words.
C15_ShortBufferRejected ==
    /\ (cd_fn = "EIPMessage" /\ cd_pc = "decoded" /\ Len(cd_buf) < 24)
          => cd_dec = Raised("FrameDecodeError")
    /\ (cd_fn = "CommonPacketFormat" /\ cd_pc = "decoded"
        /\ (Len(cd_buf) < 2 \/ ItemPastEnd(SubSeq(cd_buf, 3, Len(cd_buf)), 0)))
          => cd_dec = Raised("FrameDecodeError")
    /\ (cd_fn = "CIPReply" /\ cd_pc \in {"decoded", "reencoded"} /\ ReplyTooShort(cd_buf))
          => cd_dec = Raised("FrameDecodeError")

\* C19: from a whole reply with k extended status words the decoder takes
\* the 2k bytes at [4, 4+2k) as extended_status and the bytes from 4+2k on as
\* reply_data, and bytes() of the decoded reply is the original bytes.
C19_ReplySplitAtOffset ==
    (cd_fn = "CIPReply" /\ cd_buf = CIPReplyFrame(cd_in)) =>
        /\ cd_pc \in {"decoded", "reencoded"} =>
              /\ cd_dec.extended_status = ExtendedStatusBytes(cd_in.ext_status_words)
              /\ cd_dec.reply_data = cd_in.reply_data
        /\ cd_pc = "reencoded" => cd_obj.bytes = cd_buf


\* ------------------------------------------------------- request paths

\* The longest tag name tried; one more than the 255 a length byte holds.
MaxNameLen == 256

\* The characters of the tag names: 'A', U+00E9 and U+20AC (1, 2 and 3 bytes
\* of utf-8).
TagNameCharacters == {65, 233, 8364}

\* The tag names: every length up to n, two characters alternating.
TagNames(n) ==
    {[i \in 1..L |-> IF i % 2 = 1 THEN a ELSE b] :
        L \in 0..n, a \in TagNameCharacters, b \in TagNameCharacters}

\* The offsets and sizes of the simple data segments appended.
SegmentOffsets == {0, MAXIMUM_LENGTH - 8}

SegmentSizes == {1, MAXIMUM_LENGTH - 8}

\* A tag name, before its path is built.
InitPath ==
    /\ cd_fn = "CIPRequest"
    /\ cd_pc = "start"
    /\ cd_in \in [tag_name : TagNames(MaxNameLen)]
    /\ cd_obj = Nothing
    /\ cd_buf = <<>>
    /\ cd_dec = Nothing

\* request_path = CIPRequest.tag_request_path(tag_name).
TagRequestPath ==
    /\ cd_fn = "CIPRequest"
    /\ cd_pc = "start"
    /\ LET request_path == tag_request_path(cd_in.tag_name)
       IN  IF request_path = Raised("OverflowError")
           THEN /\ cd_dec' = request_path
                /\ cd_pc' = "raised"
                /\ UNCHANGED cd_buf
           ELSE /\ cd_buf' = request_path
                /\ cd_pc' = "path"
                /\ UNCHANGED cd_dec
    /\ UNCHANGED <<cd_fn, cd_in, cd_obj, vars_rd, vars_wr, vars_rs, vars_cn, vars_rg>>

\* request_path = request_path + SimpleDataSegmentRequest(offset, size).bytes().
AppendSimpleDataSegment ==
    /\ cd_fn = "CIPRequest"
    /\ cd_pc = "path"
    /\ \E offset \in SegmentOffsets, size \in SegmentSizes :
          cd_buf' = cd_buf \o SimpleDataSegmentRequest(offset, size)
    /\ cd_pc' = "segmented"
    /\ UNCHANGED <<cd_fn, cd_in, cd_obj, cd_dec, vars_rd, vars_wr, vars_rs, vars_cn, vars_rg>>

\* CIPRequest(request_service, request_path).
CIPRequestInit ==
    /\ cd_fn = "CIPRequest"
    /\ cd_pc \in {"path", "segmented"}
    /\ \E request_service \in {READ_TAG_SERVICE, WRITE_TAG_SERVICE} :
          cd_obj' = CIPRequest(<<request_service>>, cd_buf, <<>>)
    /\ cd_pc' = "request"
    /\ UNCHANGED <<cd_fn, cd_in, cd_buf, cd_dec, vars_rd, vars_wr, vars_rs, vars_cn, vars_rg>>

\* request.bytes().
CIPRequestBytes ==
    /\ cd_fn = "CIPRequest"
    /\ cd_pc = "request"
    /\ cd_dec' = CIPRequest_bytes(cd_obj)
    /\ cd_pc' = "encoded"
    /\ UNCHANGED <<cd_fn, cd_in, cd_buf, cd_obj, vars_rd, vars_wr, vars_rs, vars_cn, vars_rg>>

InitPathOnly ==
    /\ InitPath
    /\ ParkRead /\ ParkWrite /\ ParkResolve /\ ParkConn /\ ParkRegistry

NextPath ==
    \/ TagRequestPath
    \/ AppendSimpleDataSegment
    \/ CIPRequestInit
    \/ CIPRequestBytes

SpecPath == InitPathOnly /\ [][NextPath]_vars

\* C18: for a tag name of L <= 255 UTF-8 bytes the symbolic path has an
\* even byte length and its second byte is L, the number of name bytes, not
\* the padded length; with a simple data segment appended the path is still
\* even, so the path size in words, doubled, is the byte length of the path
\* of the request.
C18_PathEvenLengthCounted ==
    (cd_fn = "CIPRequest" /\ Len(encode_utf8(cd_in.tag_name)) <= 255 /\ cd_pc # "start") =>
        /\ cd_pc # "raised"
        /\ Len(cd_buf) % 2 = 0
        /\ cd_buf[1] = 145
        /\ cd_buf[2] = Len(encode_utf8(cd_in.tag_name))
        /\ cd_pc \in {"request", "encoded"} =>
              /\ cd_obj.request_path = cd_buf
              /\ cd_obj.request_path_size * 2 = Len(cd_buf)

\* C20: a transport failure in a core operation reaches the caller as an
\* I/O error and is never swallowed: a connect_explicit that returned
\* normally has connected the socket, and an operation that was invoked on a
\* connected object and returned normally has sent its message and received
\* a reply, not the empty buffer of a connection the peer has closed.
C20_TransportFailureReported ==
    /\ cn_last = "connect_explicit" => sock = "connected"
    /\ (cn_inv.connected /\ cn_inv.state = "returned") =>
           /\ cn_inv.sent = 1
           /\ cn_inv.rcvd = 1
           /\ last_rcvd # <<>>


\* C21: the Type Resolver surfaces UnresolvedType when it meets an
\* abbreviated structure or a type code it does not recognize, so a discovery
\* pass that returned normally met neither: every variable it enumerated has
\* a recognized class that is not the abbreviated structure and is in the
\* registry under its name.
C21_UnresolvedTypeSurfaced ==
    (rg_pc = "idle" /\ rg_passes >= 1) =>
        \A i \in 1..Len(ctl_variables) :
            /\ data_type_dictionary_get(<<ctl_variables[i].code>>)
                   \notin {"None", "CIPAbbreviatedStructure"}
            /\ ctl_variables[i].name \in dict_keys(variables)


\* The descriptor of the latest lookup is registered and is a scalar: not a
\* string, array, structure or abbreviated structure.
LookupOfScalar ==
    /\ rg_lookup.op \in {"read_variable", "write_variable"}
    /\ rg_lookup.found
    /\ dict_get(variables, rg_lookup.name).class \notin SegmentedKinds

\* C22: read_variable and write_variable of a registered scalar variable do
\* not go through the segmented engine: each makes exactly one request/reply
\* round trip, on the plain symbolic path of the name, without a simple data
\* segment.
C22_ScalarBypassesSegments ==
    LookupOfScalar =>
        /\ rg_lookup.outcome \in {"value", "returned"}
        /\ rg_lookup.requests = 1
        /\ rg_lookup.paths = <<tag_request_path(rg_lookup.name)>>
        /\ Len(rg_lookup.paths[1]) = 2 + Len(rg_lookup.name) + (Len(rg_lookup.name) % 2)

\* The scalar "V_", registered by the second pass, has been written.
C22_Witness ==
    /\ LookupOfScalar
    /\ rg_lookup.op = "write_variable"
    /\ rg_lookup.name = <<86, 95>>
    /\ rg_passes = 2
    /\ rg_lookup.paths = <<<<145, 2, 86, 95>>>>


\* The data of every request of a string write is a 2-byte little-endian
\* length followed by that many bytes, which are the bytes of the value in
\* the range the request's simple data segment declares.
StringChunksPrefixed ==
    \A i \in 1..Len(wr_reqs) :
        LET request == wr_reqs[i]
            offset == SegOffset(request.path)
            payload == SubSeq(request.data, 3, Len(request.data))
        IN  /\ SegMarked(request.path)
            /\ request.data_type = CIP_STRING
            /\ Len(request.data) >= 2
            /\ IntFromBytesLE(SubSeq(request.data, 1, 2)) = Len(payload)
            /\ payload = Slice(wr_data, offset, offset + SegSize(request.path))

\* C23 as stated: in a segmented write of a string every request's data is
\* the 2-byte little-endian count of the payload bytes of its chunk followed
\* by exactly those bytes, and a string of declared size at most 400 is
\* written in exactly one round trip.
C23_StringWriteOneRoundTrip ==
    wr_kind = "CIPString" =>
        /\ StringChunksPrefixed
        /\ (wr_pc = "done" /\ wr_size <= max_write_size) =>
               (wr_result = "returned" /\ Len(wr_reqs) = 1)

\* C23 amended: the same, the single round trip for a declared size of at
\* least 1 and at most 400; a string of declared size 0 is written with no
\* request at all.
C23_StringWritePrefixed ==
    wr_kind = "CIPString" =>
        /\ StringChunksPrefixed
        /\ (wr_pc = "done" /\ wr_size >= 1 /\ wr_size <= max_write_size) =>
               (wr_result = "returned" /\ Len(wr_reqs) = 1)
        /\ (wr_pc = "done" /\ wr_size = 0) =>
               (wr_result = "returned" /\ Len(wr_reqs) = 0)

\* "HELLO" has been written into a string of declared size 12: one request,
\* data 05 00 48 45 4C 4C 4F.
C23_Witness ==
    /\ wr_kind = "CIPString"
    /\ wr_pc = "done"
    /\ wr_size = 12
    /\ wr_data = HELLO
    /\ Len(wr_reqs) = 1
    /\ wr_reqs[1].data = <<5, 0, 72, 69, 76, 76, 79>>


\* C24: in every state reached by connect_explicit (succeeding or failing),
\* register_session, the sending operations and close_explicit,
\* has_session_handle implies is_connected_explicit and that the stored
\* session handle is the handle field of a registration reply received from
\* the controller, never that of a default message.
C24_SessionHandleImpliesConnection ==
    has_session_handle =>
        /\ is_connected_explicit
        /\ cn_reg.got
        /\ session_handle_id = HandleField(cn_reg.frame)


\* C25: a segmented write of a string, array, structure or abbreviated
\* structure of declared size S > 0 sends one write request per loop
\* iteration and has made ceil(S / 400) round trips when it ends, which it
\* does by returning.
C25_AllKindsWriteInChunks ==
    (wr_pc = "done" /\ wr_size > 0) =>
        /\ wr_result = "returned"
        /\ Len(wr_reqs) = CeilDiv(wr_size, max_write_size)
        /\ Len(wr_status) = Len(wr_reqs)


\* The names the latest discovery pass enumerated with a type code the
\* data type dictionary has a class for.
RecognizedNames ==
    {ctl_variables[i].name : i \in {k \in 1..Len(ctl_variables) :
        data_type_dictionary_get(<<ctl_variables[k].code>>) # "None"}}

\* C26: after every completed discovery pass, a second or later one against
\* a changed variable list included, the names of the registry are exactly
\* the names that pass enumerated with a recognized type code, and neither
\* partition holds any other name.
C26_RegistryIsLatestPass ==
    (rg_pc = "idle" /\ rg_passes >= 1) =>
        /\ dict_keys(variables) = RecognizedNames
        /\ dict_keys(system_variables) \subseteq RecognizedNames
        /\ dict_keys(user_variables) \subseteq RecognizedNames


\* The requests of the latest pass to one class, in the order sent.
RequestsTo(class_id) == SelectSeq(rg_reqs, LAMBDA r : r.class_id = class_id)

\* The count is read once, from instance 0 of the Tag Name Server, before
\* anything else; the names are read from its instances 1..N in increasing
\* order, all of them before the first Variable Object, and so are the
\* Variable Objects read so far.
DiscoveryReadsInOrder ==
    LET names == RequestsTo(106)
        objects == RequestsTo(107)
        N == Len(ctl_variables)
    IN  /\ Len(names) <= N + 1
        /\ rg_pc # "list" => Len(names) = N + 1
        /\ rg_pc = "list" => Len(objects) = 0
        /\ \A k \in 1..Len(names) :
              /\ rg_reqs[k] = names[k]
              /\ IntFromBytesLE(names[k].instance_id) = k - 1
        /\ Len(objects) <= N
        /\ \A k \in 1..Len(objects) : IntFromBytesLE(objects[k].instance_id) = k
        /\ rg_pc = "idle" => Len(objects) = N

\* The 1-based list positions of the latest pass whose type code is
\* recognized.
RecognizedPositions ==
    {k \in 1..Len(ctl_variables) :
        data_type_dictionary_get(<<ctl_variables[k].code>>) # "None"}

\* C27 as stated: the count is read once from instance 0, instances 1..N in
\* increasing order, and after the pass the descriptor registered for the
\* name at every list position i (0-based) of a recognized type carries
\* instance_id = i + 1.
C27_InstanceIdIsListPosition ==
    (rg_pc \in {"list", "update", "idle"} /\ (rg_pc # "idle" \/ rg_passes >= 1)) =>
        /\ DiscoveryReadsInOrder
        /\ rg_pc = "idle" =>
              \A k \in RecognizedPositions :
                  dict_get(variables, ctl_variables[k].name).instance_id = k

\* C27 amended: the same reads, and the descriptor registered for a name
\* carries the instance id of the last list position at which the name was
\* enumerated with a recognized type; with a name enumerated once that is
\* its own position, whatever the type codes at the positions before it.
C27_InstanceIdIsLastPosition ==
    (rg_pc \in {"list", "update", "idle"} /\ (rg_pc # "idle" \/ rg_passes >= 1)) =>
        /\ DiscoveryReadsInOrder
        /\ rg_pc = "idle" =>
              \A k \in RecognizedPositions :
                  LET name == ctl_variables[k].name
                      last == CHOOSE q \in RecognizedPositions :
                                  /\ ctl_variables[q].name = name
                                  /\ \A r \in RecognizedPositions :
                                        ctl_variables[r].name = name => r <= q
                  IN  /\ dict_get(variables, name).instance_id = last
                      /\ dict_get(variables, name).variable_name = name
                      /\ (\A r \in 1..Len(ctl_variables) :
                             ctl_variables[r].name = name => r = k)
                            => dict_get(variables, name).instance_id = k

\* A pass over three variables: the first has a type code that is not
\* recognized, the other two are registered with instance ids 2 and 3.
C27_Witness ==
    /\ rg_pc = "idle"
    /\ rg_passes = 1
    /\ Len(ctl_variables) = 3
    /\ RecognizedPositions = {2, 3}
    /\ ctl_variables[1].name = <<86>>
    /\ ctl_variables[2].name = <<95, 83>>
    /\ ctl_variables[3].name = <<86, 95>>
    /\ dict_get(variables, <<95, 83>>).instance_id = 2
    /\ dict_get(variables, <<86, 95>>).instance_id = 3
    /\ Len(rg_reqs) = 7

====
